---------------------------- MODULE Spec2Model ----------------------------
(***************************************************************************)
(* A model of shrike-guard-python: the verdict sanitizer                   *)
(* (sanitizer.py), the low-level scan clients and the size guard           *)
(* (scanner.py) and the provider adapters (anthropic_client.py,            *)
(* async_client.py, gemini_client.py).                                     *)
(*                                                                         *)
(* Python values are modelled as one-field records so that values of       *)
(* different Python types are comparable: None is [none |-> TRUE], a bool  *)
(* b is [bool |-> b], a str s is [str |-> s], a float is [num |-> n] with  *)
(* n the score in hundredths (0.95 is 95), a list is [list |-> seq].  A    *)
(* dict is a function from its keys (strings) to values.  A raised         *)
(* exception is [exc |-> class name].                                      *)
(***************************************************************************)
EXTENDS Integers, Sequences, FiniteSets, TLC

VARIABLES
    kind,           \* the class of the client
    fail_mode,      \* its _fail_mode ("none" for a class that has none)
    use_new_sdk,    \* ShrikeGemini._use_new_sdk
    http,           \* its _http, the transport of the scan requests
    calls,          \* per task, the call it has in progress
    fn,         \* pure-function harness: the function applied ("none" before)
    arg,        \* pure-function harness: the input drawn in Init
    ret,        \* pure-function harness: the value returned or exception raised
    ret2        \* pure-function harness: the function applied to its own result

fnvars == <<fn, arg, ret, ret2>>
clientvars == <<kind, fail_mode, use_new_sdk, http>>
vars == <<kind, fail_mode, use_new_sdk, http, calls, fn, arg, ret, ret2>>

(***************************************************************************)
(* Python values                                                           *)
(***************************************************************************)
None == [none |-> TRUE]
Bool(b) == [bool |-> b]
Str(s) == [str |-> s]
Num(n) == [num |-> n]
List(q) == [list |-> q]
Exc(name) == [exc |-> name]
NotRun == [notrun |-> TRUE]

IsNone(v) == DOMAIN v = {"none"}
IsBool(v) == DOMAIN v = {"bool"}
IsStr(v) == DOMAIN v = {"str"}
IsNum(v) == DOMAIN v = {"num"}
IsList(v) == DOMAIN v = {"list"}
IsExc(v) == DOMAIN v = {"exc"}
IsDict(v) == DOMAIN v \cap {"none", "bool", "str", "num", "list", "exc"} = {}

\* Python truth value of a value (bool(v)).
Truthy(v) ==
    IF IsNone(v) THEN FALSE
    ELSE IF IsBool(v) THEN v.bool
    ELSE IF IsStr(v) THEN v.str # ""
    ELSE IF IsNum(v) THEN v.num # 0
    ELSE IF IsList(v) THEN Len(v.list) > 0
    ELSE TRUE

\* dict.get(key, default)
Get(d, key, default) == IF key \in DOMAIN d THEN d[key] ELSE default

UPPERCASE == "ABCDEFGHIJKLMNOPQRSTUVWXYZ"
LOWERCASE == "abcdefghijklmnopqrstuvwxyz"

Char(s, i) == SubSeq(s, i, i)

LowerChar(c) ==
    IF \E i \in 1..Len(UPPERCASE) : Char(UPPERCASE, i) = c
    THEN Char(LOWERCASE, CHOOSE i \in 1..Len(UPPERCASE) : Char(UPPERCASE, i) = c)
    ELSE c

\* str.lower()
RECURSIVE lower(_)
lower(s) == IF s = "" THEN "" ELSE LowerChar(Char(s, 1)) \o lower(Tail(s))

\* str.replace(old, new) for a one-character old
RECURSIVE replace(_, _, _)
replace(s, old, new) ==
    IF s = "" THEN ""
    ELSE (IF Char(s, 1) = old THEN new ELSE Char(s, 1)) \o replace(Tail(s), old, new)

(***************************************************************************)
(* sanitizer.py                                                            *)
(***************************************************************************)
THREAT_TYPE_MAP ==
       ("prompt_injection" :> "prompt_injection")
    @@ ("injection" :> "prompt_injection")
    @@ ("inject" :> "prompt_injection")
    @@ ("instruction_override" :> "prompt_injection")
    @@ ("role_hijacking" :> "prompt_injection")
    @@ ("context_manipulation" :> "prompt_injection")
    @@ ("token_manipulation" :> "prompt_injection")
    @@ ("indirect_injection" :> "prompt_injection")
    @@ ("context_poisoning" :> "prompt_injection")
    @@ ("function_injection" :> "prompt_injection")
    @@ ("memory_injection" :> "prompt_injection")
    @@ ("topic_mismatch" :> "prompt_injection")
    @@ ("jailbreak" :> "jailbreak")
    @@ ("jailbreak_attempt" :> "jailbreak")
    @@ ("safety_bypass" :> "jailbreak")
    @@ ("roleplay" :> "jailbreak")
    @@ ("hypothetical" :> "jailbreak")
    @@ ("completion_baiting" :> "jailbreak")
    @@ ("override" :> "jailbreak")
    @@ ("manipulate" :> "jailbreak")
    @@ ("tonality_drift_profanity" :> "jailbreak")
    @@ ("tonality_drift_casual" :> "jailbreak")
    @@ ("tonality_drift_hostile" :> "jailbreak")
    @@ ("system_prompt_leak" :> "system_prompt_leak")
    @@ ("system_prompt_extraction" :> "system_prompt_leak")
    @@ ("data_exfiltration" :> "data_exfiltration")
    @@ ("exfiltration" :> "data_exfiltration")
    @@ ("exfiltrate" :> "data_exfiltration")
    @@ ("extract" :> "data_exfiltration")
    @@ ("data_leak" :> "data_exfiltration")
    @@ ("information_disclosure" :> "data_exfiltration")
    @@ ("credential_extraction" :> "data_exfiltration")
    @@ ("sql_injection" :> "sql_injection")
    @@ ("sqli" :> "sql_injection")
    @@ ("tautology" :> "sql_injection")
    @@ ("tautology_or" :> "sql_injection")
    @@ ("tautology_and" :> "sql_injection")
    @@ ("union_injection" :> "sql_injection")
    @@ ("stacked_query" :> "sql_injection")
    @@ ("path_traversal" :> "path_traversal")
    @@ ("directory_traversal" :> "path_traversal")
    @@ ("path_violation" :> "path_traversal")
    @@ ("file_access" :> "path_traversal")
    @@ ("sensitive_path" :> "path_traversal")
    @@ ("sensitive_extension" :> "path_traversal")
    @@ ("blocked_extension" :> "path_traversal")
    @@ ("secrets_exposure" :> "secrets_exposure")
    @@ ("secrets" :> "secrets_exposure")
    @@ ("api_key" :> "secrets_exposure")
    @@ ("credential" :> "secrets_exposure")
    @@ ("sensitive_file" :> "secrets_exposure")
    @@ ("content_violation" :> "secrets_exposure")
    @@ ("sensitive_content" :> "secrets_exposure")
    @@ ("secret_key" :> "secrets_exposure")
    @@ ("aws_key" :> "secrets_exposure")
    @@ ("private_key" :> "secrets_exposure")
    @@ ("pii_exposure" :> "pii_exposure")
    @@ ("pii" :> "pii_exposure")
    @@ ("pii_leak" :> "pii_exposure")
    @@ ("personal_data" :> "pii_exposure")
    @@ ("pii_in_search" :> "pii_exposure")
    @@ ("pii_extraction" :> "pii_exposure")
    @@ ("ssn" :> "pii_exposure")
    @@ ("credit_card" :> "pii_exposure")
    @@ ("email_exposure" :> "pii_exposure")
    @@ ("phone_number" :> "pii_exposure")
    @@ ("unexpected_pii_leakage" :> "pii_exposure")
    @@ ("blocked_domain" :> "blocked_domain")
    @@ ("suspicious_tld" :> "blocked_domain")
    @@ ("suspicious_domain" :> "blocked_domain")
    @@ ("malicious_url" :> "blocked_domain")
    @@ ("toxicity" :> "toxicity")
    @@ ("harmful_content" :> "toxicity")
    @@ ("malicious_content" :> "malicious_code")
    @@ ("malicious_code" :> "malicious_code")
    @@ ("reverse_shell" :> "malicious_code")
    @@ ("web_shell" :> "malicious_code")
    @@ ("fork_bomb" :> "malicious_code")
    @@ ("crypto_miner" :> "malicious_code")
    @@ ("persistence" :> "malicious_code")
    @@ ("shell_injection" :> "malicious_code")
    @@ ("harmful_intent" :> "harmful_intent")
    @@ ("dangerous_request" :> "harmful_intent")
    @@ ("social_engineering" :> "social_engineering")
    @@ ("emotional" :> "social_engineering")
    @@ ("authority_claim" :> "social_engineering")
    @@ ("privilege_escalation" :> "privilege_escalation")
    @@ ("destructive_operation" :> "destructive_operation")
    @@ ("scan_error" :> "scan_error")
    @@ ("size_limit_exceeded" :> "size_limit_exceeded")
    @@ ("size_limit" :> "size_limit_exceeded")
    @@ ("timeout" :> "scan_error")

THREAT_GUIDANCE ==
       ("prompt_injection" :> "This prompt contains patterns consistent with instruction override attempts.")
    @@ ("jailbreak" :> "This prompt attempts to bypass safety guidelines. The request has been blocked.")
    @@ ("system_prompt_leak" :> "The response contains system prompt disclosure. The response has been blocked.")
    @@ ("data_exfiltration" :> "This prompt may attempt to extract sensitive information.")
    @@ ("sql_injection" :> "This query contains potentially dangerous SQL patterns.")
    @@ ("path_traversal" :> "This file path attempts to access directories outside the allowed scope.")
    @@ ("secrets_exposure" :> "This content contains patterns matching API keys, tokens, or credentials.")
    @@ ("pii_exposure" :> "This content contains personally identifiable information.")
    @@ ("blocked_domain" :> "This web search targets a restricted domain.")
    @@ ("toxicity" :> "This content contains potentially harmful or inappropriate language.")
    @@ ("malicious_code" :> "This content contains patterns associated with malicious code.")
    @@ ("harmful_intent" :> "This request contains content associated with harmful intent.")
    @@ ("social_engineering" :> "This prompt contains social engineering patterns.")
    @@ ("privilege_escalation" :> "This query attempts to escalate privileges or gain unauthorized access.")
    @@ ("destructive_operation" :> "This query contains destructive operations. Review carefully.")
    @@ ("scan_error" :> "The security scan could not be completed. Blocked as precaution.")
    @@ ("size_limit_exceeded" :> "The content exceeds the maximum allowed size.")
    @@ ("unknown" :> "A security concern was detected. Please review the content.")

THREAT_SEVERITY ==
       ("prompt_injection" :> "high")
    @@ ("jailbreak" :> "high")
    @@ ("system_prompt_leak" :> "high")
    @@ ("data_exfiltration" :> "high")
    @@ ("sql_injection" :> "critical")
    @@ ("path_traversal" :> "high")
    @@ ("secrets_exposure" :> "critical")
    @@ ("pii_exposure" :> "high")
    @@ ("blocked_domain" :> "medium")
    @@ ("toxicity" :> "medium")
    @@ ("malicious_code" :> "critical")
    @@ ("harmful_intent" :> "high")
    @@ ("social_engineering" :> "medium")
    @@ ("privilege_escalation" :> "critical")
    @@ ("destructive_operation" :> "critical")
    @@ ("scan_error" :> "medium")
    @@ ("size_limit_exceeded" :> "low")
    @@ ("unknown" :> "medium")

_INTERNAL_FIELDS ==
    {"detected_by", "policy_id", "policy_name", "matched_pattern",
     "matched_text", "pattern", "scan_stage", "ai_reasoning", "llm_analysis",
     "performance_metrics", "performance"}

\* Thresholds of bucket_confidence, in hundredths.
HIGH_THRESHOLD == 90
MEDIUM_THRESHOLD == 70

\* normalize_threat_type without the replacement of hyphens.
normalize_keeps_hyphens(raw_type) ==
    IF ~Truthy(raw_type) THEN Str("unknown")
    ELSE IF ~IsStr(raw_type) THEN Exc("AttributeError")
    ELSE LET normalized == lower(raw_type.str)
         IN  IF normalized \in DOMAIN THREAT_TYPE_MAP
             THEN Str(THREAT_TYPE_MAP[normalized])
             ELSE Str("unknown")

normalize_threat_type(raw_type) ==
    IF ~Truthy(raw_type) THEN Str("unknown")
    ELSE IF ~IsStr(raw_type) THEN Exc("AttributeError")
    ELSE LET normalized == replace(lower(raw_type.str), "-", "_")
         IN  IF normalized \in DOMAIN THREAT_TYPE_MAP
             THEN Str(THREAT_TYPE_MAP[normalized])
             ELSE Str("unknown")

valid_severities == {"critical", "high", "medium", "low"}

\* derive_severity without the override: always the default of the table.
derive_severity_table_only(threat_type, raw_severity) ==
    IF Truthy(raw_severity) /\ ~IsStr(raw_severity) THEN Exc("AttributeError")
    ELSE IF threat_type \in DOMAIN THREAT_SEVERITY
         THEN Str(THREAT_SEVERITY[threat_type])
         ELSE Str("medium")

derive_severity(threat_type, raw_severity) ==
    IF Truthy(raw_severity) /\ ~IsStr(raw_severity) THEN Exc("AttributeError")
    ELSE IF Truthy(raw_severity) /\ lower(raw_severity.str) \in valid_severities
         THEN Str(lower(raw_severity.str))
    ELSE IF threat_type \in DOMAIN THREAT_SEVERITY
         THEN Str(THREAT_SEVERITY[threat_type])
         ELSE Str("medium")

\* The score as a number: a bool is an int in Python, True compares as 1.0
\* and False as 0.0.
ScoreOf(score) == IF IsBool(score) THEN (IF score.bool THEN 100 ELSE 0) ELSE score.num

\* bucket_confidence with the boundaries in the lower bucket.
bucket_confidence_strict(score) ==
    IF IsNone(score) THEN Str("medium")
    ELSE IF ~(IsNum(score) \/ IsBool(score)) THEN Exc("TypeError")
    ELSE IF ScoreOf(score) > HIGH_THRESHOLD THEN Str("high")
    ELSE IF ScoreOf(score) > MEDIUM_THRESHOLD THEN Str("medium")
    ELSE Str("low")

bucket_confidence(score) ==
    IF IsNone(score) THEN Str("medium")
    ELSE IF ~(IsNum(score) \/ IsBool(score)) THEN Exc("TypeError")
    ELSE IF ScoreOf(score) >= HIGH_THRESHOLD THEN Str("high")
    ELSE IF ScoreOf(score) >= MEDIUM_THRESHOLD THEN Str("medium")
    ELSE Str("low")

\* The safe branch of sanitize_scan_response.
SafeVerdict(raw) == ("safe" :> Bool(TRUE)) @@ ("reason" :> Get(raw, "reason", Str("")))

\* The unsafe branch handing on the score of the backend as it is.
UnsafeVerdict_exact_score(raw) ==
    LET raw_threat_type == Get(raw, "threat_type", Str("unknown"))
        threat_type == normalize_threat_type(raw_threat_type)
        confidence == Get(raw, "confidence", None)
    IN  IF IsExc(threat_type) THEN threat_type
        ELSE LET severity == derive_severity(threat_type.str, Get(raw, "severity", None))
                 guidance == IF threat_type.str \in DOMAIN THREAT_GUIDANCE
                             THEN THREAT_GUIDANCE[threat_type.str]
                             ELSE THREAT_GUIDANCE["unknown"]
             IN  IF IsExc(severity) THEN severity
                 ELSE ("safe" :> Bool(FALSE))
                   @@ ("threat_type" :> threat_type)
                   @@ ("severity" :> severity)
                   @@ ("confidence" :> confidence)
                   @@ ("reason" :> Get(raw, "reason", Str(guidance)))
                   @@ ("guidance" :> Str(guidance))

\* The unsafe branch of sanitize_scan_response: the verdict, or the
\* exception the first failing step raises.
UnsafeVerdict(raw) ==
    LET raw_threat_type == Get(raw, "threat_type", Str("unknown"))
        threat_type == normalize_threat_type(raw_threat_type)
        confidence == bucket_confidence(Get(raw, "confidence", None))
    IN  IF IsExc(threat_type) THEN threat_type
        ELSE IF IsExc(confidence) THEN confidence
        ELSE LET severity == derive_severity(threat_type.str, Get(raw, "severity", None))
                 guidance == IF threat_type.str \in DOMAIN THREAT_GUIDANCE
                             THEN THREAT_GUIDANCE[threat_type.str]
                             ELSE THREAT_GUIDANCE["unknown"]
             IN  IF IsExc(severity) THEN severity
                 ELSE ("safe" :> Bool(FALSE))
                   @@ ("threat_type" :> threat_type)
                   @@ ("severity" :> severity)
                   @@ ("confidence" :> confidence)
                   @@ ("reason" :> Get(raw, "reason", Str(guidance)))
                   @@ ("guidance" :> Str(guidance))

\* sanitize_scan_response updating a copy of the raw response instead of
\* building a new dict.
sanitize_updates_raw(raw) ==
    IF ~IsDict(raw) THEN Exc("AttributeError")
    ELSE LET v == IF Truthy(Get(raw, "safe", Bool(TRUE))) THEN SafeVerdict(raw)
                  ELSE UnsafeVerdict(raw)
         IN  IF IsExc(v) THEN v ELSE v @@ raw

\* sanitize_scan_response handing the raw response on as it is.
sanitize_passes_raw(raw) == raw

\* sanitize_scan_response taking a response without a "safe" field as
\* unsafe (raw.get("safe", False)).
sanitize_defaults_unsafe(raw) ==
    IF ~IsDict(raw) THEN Exc("AttributeError")
    ELSE IF Truthy(Get(raw, "safe", Bool(FALSE))) THEN SafeVerdict(raw)
    ELSE UnsafeVerdict(raw)

sanitize_scan_response(raw) ==
    IF ~IsDict(raw) THEN Exc("AttributeError")   \* raw.get on a body that is not a dict
    ELSE IF Truthy(Get(raw, "safe", Bool(TRUE))) THEN SafeVerdict(raw)
    ELSE UnsafeVerdict(raw)

(***************************************************************************)
(* config.py, scanner.py: constants and the size guard                     *)
(***************************************************************************)
FailModes == {"open", "closed"}     \* FailMode.OPEN, FailMode.CLOSED

MAX_CONTENT_SIZE == 102400          \* 100 * 1024

\* str(v) as used in f-strings and error messages.
PyStr(v) ==
    IF IsStr(v) THEN v.str
    ELSE IF IsNone(v) THEN "None"
    ELSE IF IsBool(v) THEN (IF v.bool THEN "True" ELSE "False")
    ELSE IF IsNum(v) THEN ToString(v.num)
    ELSE "<object>"

\* _check_content_size(content, context): the blocked result, or None.
_check_content_size(content, context) ==
    LET total_size == Len(content) + (IF Truthy(context) THEN Len(context.str) ELSE 0)
    IN  IF total_size > MAX_CONTENT_SIZE
        THEN   ("safe" :> Bool(FALSE))
            @@ ("reason" :> Str("Content too large (" \o ToString(total_size \div 1024)
                                \o "KB > " \o ToString(MAX_CONTENT_SIZE \div 1024)
                                \o "KB limit)"))
            @@ ("threat_type" :> Str("size_limit_exceeded"))
            @@ ("confidence" :> Num(100))
            @@ ("violations" :> List(<<
                     ("type" :> Str("size_limit"))
                  @@ ("description" :> Str("Content exceeds maximum size of "
                                           \o ToString(MAX_CONTENT_SIZE \div 1024) \o "KB"))>>))
        ELSE None

(***************************************************************************)
(* Content extraction                                                      *)
(***************************************************************************)
\* sep.join(texts) for a sequence of strings.
RECURSIVE join(_, _)
join(sep, texts) ==
    IF Len(texts) = 0 THEN ""
    ELSE IF Len(texts) = 1 THEN texts[1]
    ELSE texts[1] \o sep \o join(sep, Tail(texts))

WHITESPACE == {" ", "\n", "\t", "\r"}

\* not s.strip(): s is empty or consists of whitespace only.
IsBlank(s) == ~ \E i \in 1..Len(s) : Char(s, i) \notin WHITESPACE

\* The texts one message content contributes.  str_blocks tells whether a
\* bare string inside a content list counts (the Anthropic adapters) or not
\* (the OpenAI adapter).
RECURSIVE BlockTexts(_, _)
BlockTexts(blocks, str_blocks) ==
    IF Len(blocks) = 0 THEN <<>>
    ELSE LET block == blocks[1]
             here == IF IsDict(block) /\ Get(block, "type", None) = Str("text")
                     THEN <<Get(block, "text", Str("")).str>>
                     ELSE IF IsStr(block) /\ str_blocks THEN <<block.str>>
                     ELSE <<>>
         IN  here \o BlockTexts(Tail(blocks), str_blocks)

\* UserTexts without the test of the role.
RECURSIVE UserTexts_any_role(_, _)
UserTexts_any_role(messages, str_blocks) ==
    IF Len(messages) = 0 THEN <<>>
    ELSE LET msg == messages[1]
             content == Get(msg, "content", None)
             here == IF IsStr(content) THEN <<content.str>>
                     ELSE IF IsList(content) THEN BlockTexts(content.list, str_blocks)
                     ELSE <<>>
         IN  here \o UserTexts_any_role(Tail(messages), str_blocks)

RECURSIVE UserTexts(_, _)
UserTexts(messages, str_blocks) ==
    IF Len(messages) = 0 THEN <<>>
    ELSE LET msg == messages[1]
             content == Get(msg, "content", None)
             here == IF Get(msg, "role", None) # Str("user") THEN <<>>
                     ELSE IF IsStr(content) THEN <<content.str>>
                     ELSE IF IsList(content) THEN BlockTexts(content.list, str_blocks)
                     ELSE <<>>
         IN  here \o UserTexts(Tail(messages), str_blocks)

\* ShrikeAnthropic._extract_user_content, ShrikeAsyncAnthropic._extract_user_content
anthropic_extract_user_content(messages) == join("\n", UserTexts(messages, TRUE))

\* ShrikeAsyncOpenAI._extract_user_content
openai_extract_user_content(messages) == join("\n", UserTexts(messages, FALSE))

\* The texts of the parts of a dict item of a contents list.
RECURSIVE PartTexts(_)
PartTexts(parts) ==
    IF Len(parts) = 0 THEN <<>>
    ELSE LET part == parts[1]
             here == IF IsStr(part) THEN <<part.str>>
                     ELSE IF IsDict(part) /\ "text" \in DOMAIN part THEN <<part["text"].str>>
                     ELSE <<>>
         IN  here \o PartTexts(Tail(parts))

RECURSIVE ItemTexts(_)
ItemTexts(items) ==
    IF Len(items) = 0 THEN <<>>
    ELSE LET item == items[1]
             here == IF IsStr(item) THEN <<item.str>>
                     ELSE IF IsDict(item) /\ "text" \in DOMAIN item THEN <<item["text"].str>>
                     ELSE IF IsDict(item) /\ "parts" \in DOMAIN item
                          THEN PartTexts(item["parts"].list)
                     ELSE <<>>
         IN  here \o ItemTexts(Tail(items))

\* ShrikeGemini._extract_content
RECURSIVE _extract_content(_)
_extract_content(contents) ==
    IF IsStr(contents) THEN contents.str
    ELSE IF IsList(contents) THEN join("\n", ItemTexts(contents.list))
    ELSE IF IsDict(contents) /\ "text" \in DOMAIN contents THEN contents["text"].str
    ELSE IF IsDict(contents) /\ "parts" \in DOMAIN contents
         THEN _extract_content(contents["parts"])
    ELSE PyStr(contents)

(***************************************************************************)
(* The clients: state                                                      *)
(***************************************************************************)
\* The callers of the client: one caller, whose calls follow one another.
Tasks == {"main"}

AnthropicKinds == {"ShrikeAnthropic", "ShrikeAsyncAnthropic"}
AdapterKinds == AnthropicKinds \cup {"ShrikeAsyncOpenAI", "ShrikeGemini"}
ScanKinds == {"ScanClient", "AsyncScanClient"}
Kinds == AdapterKinds \cup ScanKinds

\* The guarded entry points of each class, and its scan operations.
GuardedEntries(k) ==
    IF k \in AnthropicKinds THEN {"create", "stream"}
    ELSE IF k = "ShrikeAsyncOpenAI" THEN {"create"}
    ELSE IF k = "ShrikeGemini"
         THEN {"generate_content", "generate_content_stream", "generate_content_async",
               "send_message", "send_message_async"}
    ELSE {}

ScanEntries(k) ==
    IF k \in ScanKinds \cup {"ShrikeAsyncOpenAI"} THEN {"scan_sql", "scan_file"} \cup
        (IF k \in ScanKinds THEN {"scan"} ELSE {})
    ELSE {}

EntryPoints(k) == GuardedEntries(k) \cup ScanEntries(k)

Idle ==
    [pc |-> "idle", entry |-> "", args |-> <<>>, posts |-> 0, request |-> None,
     reply |-> None, warnings |-> 0, scan_result |-> None, invoked |-> <<>>,
     result |-> None, earlier |-> None]

Returned(value) == [returned |-> value]
Raised(cls, fields) == [raised |-> cls, fields |-> fields]

IsReturned(r) == DOMAIN r = {"returned"}
IsRaised(r) == "raised" \in DOMAIN r

(***************************************************************************)
(* The scan round trip                                                     *)
(***************************************************************************)
\* The exception a transport reply makes the code between the post and the
\* return of sanitize_scan_response raise, or None, and str(e) for it.
ReplyException(reply) ==
    IF reply.kind = "timeout" THEN Exc("TimeoutException")
    ELSE IF reply.kind = "connect_error" THEN Exc("ConnectError")
    ELSE IF reply.kind = "status" THEN Exc("HTTPStatusError")
    ELSE IF reply.kind = "bad_json" THEN Exc("JSONDecodeError")
    ELSE IF reply.kind = "closed" THEN Exc("RuntimeError")
    ELSE LET s == sanitize_scan_response(reply.json)
         IN  IF IsExc(s) THEN s ELSE None

ReplyMessage(reply) ==
    IF reply.kind \in {"connect_error", "bad_json", "closed"} THEN reply.message
    ELSE ReplyException(reply).exc

ScanOutcome(value, raised, warned) == [value |-> value, raised |-> raised, warned |-> warned]

FailOpen(reason, warned) ==
    ScanOutcome(("safe" :> Bool(TRUE)) @@ ("reason" :> Str(reason)), None, warned)

FailClosed(message) ==
    ScanOutcome(None, Raised("ShrikeScanError", [message |-> message]), FALSE)

\* except httpx.TimeoutException: the only branch that logs a warning.
OnTimeout(fm) ==
    IF fm = "open" THEN FailOpen("Scan timeout, failing open", TRUE)
    ELSE FailClosed("Scan request timed out and fail_mode is 'closed'")

\* except httpx.HTTPStatusError
OnStatusError(fm, reply) ==
    IF fm = "open" THEN FailOpen("Scan API error: " \o ToString(reply.code), FALSE)
    ELSE FailClosed("Scan API returned error: " \o ToString(reply.code))

\* except Exception
OnException(fm, reply) ==
    IF fm = "open" THEN FailOpen("Scan error: " \o ReplyMessage(reply), FALSE)
    ELSE FailClosed("Scan failed: " \o ReplyMessage(reply))

\* _remote_scan raising ShrikeScanError for an HTTP-status error whatever
\* the fail mode.
_remote_scan_status_raises(fm, reply) ==
    LET e == ReplyException(reply)
    IN  IF IsNone(e) THEN ScanOutcome(sanitize_scan_response(reply.json), None, FALSE)
        ELSE IF e.exc = "TimeoutException" THEN OnTimeout(fm)
        ELSE IF e.exc = "HTTPStatusError" THEN OnStatusError("closed", reply)
        ELSE OnException(fm, reply)

\* _remote_scan failing open for an unparsable body whatever the fail mode.
_remote_scan_swallows(fm, reply) ==
    LET e == ReplyException(reply)
    IN  IF IsNone(e) THEN ScanOutcome(sanitize_scan_response(reply.json), None, FALSE)
        ELSE IF e.exc = "TimeoutException" THEN OnTimeout(fm)
        ELSE IF e.exc = "HTTPStatusError" THEN OnStatusError(fm, reply)
        ELSE OnException("open", reply)

\* _remote_scan catching the errors of httpx only (except httpx.HTTPError):
\* any other exception leaves the entry point as it is.
_remote_scan_httpx_errors_only(fm, reply) ==
    LET e == ReplyException(reply)
    IN  IF IsNone(e) THEN ScanOutcome(sanitize_scan_response(reply.json), None, FALSE)
        ELSE IF e.exc = "TimeoutException" THEN OnTimeout(fm)
        ELSE IF e.exc = "HTTPStatusError" THEN OnStatusError(fm, reply)
        ELSE IF e.exc = "ConnectError" THEN OnException(fm, reply)
        ELSE ScanOutcome(None, Raised(e.exc, [message |-> ReplyMessage(reply)]), FALSE)

\* _remote_scan of ShrikeAnthropic, ShrikeAsyncAnthropic, ShrikeAsyncOpenAI
\* and ShrikeGemini, from the reply of the transport on.
_remote_scan(fm, reply) ==
    LET e == ReplyException(reply)
    IN  IF IsNone(e) THEN ScanOutcome(sanitize_scan_response(reply.json), None, FALSE)
        ELSE IF e.exc = "TimeoutException" THEN OnTimeout(fm)
        ELSE IF e.exc = "HTTPStatusError" THEN OnStatusError(fm, reply)
        ELSE OnException(fm, reply)

\* ShrikeAsyncOpenAI.scan_sql and scan_file, from the reply of the transport
\* on; what is the noun of the error messages ("SQL" or "File").
openai_specialized_scan(fm, reply, what) ==
    LET e == ReplyException(reply)
    IN  IF IsNone(e) THEN ScanOutcome(sanitize_scan_response(reply.json), None, FALSE)
        ELSE IF e.exc = "TimeoutException"
        THEN IF fm = "open" THEN FailOpen("Scan timeout, failing open", FALSE)
             ELSE FailClosed(what \o " scan request timed out")
        ELSE IF fm = "open" THEN FailOpen("Scan error: " \o ReplyMessage(reply), FALSE)
             ELSE FailClosed(what \o " scan failed: " \o ReplyMessage(reply))

\* scanner_scan wrapping every error of the round trip into ShrikeScanError.
scanner_scan_wraps(reply) ==
    LET e == ReplyException(reply)
    IN  IF IsNone(e) THEN ScanOutcome(sanitize_scan_response(reply.json), None, FALSE)
        ELSE FailClosed("Scan failed: " \o ReplyMessage(reply))

\* ScanClient and AsyncScanClient scan, scan_sql and scan_file, from the
\* reply of the transport on: nothing is caught.
scanner_scan(reply) ==
    LET e == ReplyException(reply)
    IN  IF IsNone(e) THEN ScanOutcome(sanitize_scan_response(reply.json), None, FALSE)
        ELSE ScanOutcome(None, Raised(e.exc, [message |-> ReplyMessage(reply)]), FALSE)

(***************************************************************************)
(* The guarded entry points: decide and delegate                           *)
(***************************************************************************)
\* The ShrikeBlockedError an entry point raises for an unsafe scan result.
\* Only ShrikeAsyncOpenAI passes violations and prefixes the message.
BlockedError(k, scan_result) ==
    IF k = "ShrikeAsyncOpenAI"
    THEN Raised("ShrikeBlockedError",
            [message |-> Str("Request blocked: "
                             \o PyStr(Get(scan_result, "reason", Str("Security threat detected")))),
             threat_type |-> Get(scan_result, "threat_type", None),
             confidence |-> Get(scan_result, "confidence", None),
             violations |-> LET v == Get(scan_result, "violations", List(<<>>))
                            IN  IF Truthy(v) THEN v ELSE List(<<>>)])
    ELSE Raised("ShrikeBlockedError",
            [message |-> Get(scan_result, "reason", Str("Request blocked by Shrike")),
             threat_type |-> Get(scan_result, "threat_type", None),
             confidence |-> Get(scan_result, "confidence", None),
             violations |-> List(<<>>)])

\* The method of the wrapped provider client an entry point delegates to.
\* A chat of the legacy SDK has send_message_async, one of the new SDK has not.
ProviderMethod(k, new_sdk, entry, args) ==
    IF k \in AnthropicKinds THEN "messages." \o entry
    ELSE IF k = "ShrikeAsyncOpenAI" THEN "chat.completions.create"
    ELSE IF entry \in {"generate_content", "generate_content_stream"}
         THEN IF new_sdk
              THEN (IF entry = "generate_content_stream" \/ args.stream
                    THEN "models.generate_content_stream" ELSE "models.generate_content")
              ELSE "GenerativeModel.generate_content"
    ELSE IF entry = "generate_content_async"
         THEN (IF new_sdk THEN "aio.models.generate_content"
               ELSE "GenerativeModel.generate_content_async")
    ELSE IF entry = "send_message_async" /\ ~new_sdk THEN "chat.send_message_async"
    ELSE "chat.send_message"

\* ProviderArgs forwarding the payload and the stream flag only.
ProviderArgs_drops_kwargs(k, new_sdk, entry, args) ==
    LET named == [f \in DOMAIN args \ {"kwargs"} |-> args[f]]
    IN  IF k = "ShrikeGemini" /\ entry \in {"generate_content", "generate_content_stream"}
        THEN IF new_sdk
             THEN ("model" :> "gemini-pro") @@ [f \in DOMAIN named \ {"stream"} |-> named[f]]
             ELSE IF entry = "generate_content_stream" THEN ("stream" :> TRUE) @@ named
             ELSE named
        ELSE IF k = "ShrikeGemini" /\ entry = "generate_content_async" /\ new_sdk
        THEN ("model" :> "gemini-pro") @@ named
        ELSE named

\* The arguments handed to the provider.  The Anthropic and OpenAI entry
\* points, the chat session and the legacy Gemini SDK get those of the
\* caller, generate_content_stream adding stream=True.  The new Gemini SDK
\* gets model=self._model_name ("gemini-pro" here), the contents and the
\* keyword arguments; the stream flag is not passed on, it selects the
\* method called.
ProviderArgs(k, new_sdk, entry, args) ==
    IF k = "ShrikeGemini" /\ entry \in {"generate_content", "generate_content_stream"}
    THEN IF new_sdk
         THEN ("model" :> "gemini-pro") @@ [f \in DOMAIN args \ {"stream"} |-> args[f]]
         ELSE IF entry = "generate_content_stream" THEN ("stream" :> TRUE) @@ args
         ELSE args
    ELSE IF k = "ShrikeGemini" /\ entry = "generate_content_async" /\ new_sdk
    THEN ("model" :> "gemini-pro") @@ args
    ELSE args

\* The provider call an entry point makes.
Invoke(k, new_sdk, call) ==
    Append(call.invoked, [method |-> ProviderMethod(k, new_sdk, call.entry, call.args),
                          args |-> ProviderArgs(k, new_sdk, call.entry, call.args)])

\* Decide without step 2: the provider is called whatever the verdict.
Decide_skips_block(k, new_sdk, call, outcome) ==
    LET seen == [call EXCEPT !.warnings = @ + (IF outcome.warned THEN 1 ELSE 0)]
    IN  IF ~IsNone(outcome.raised)
        THEN [seen EXCEPT !.pc = "done", !.result = outcome.raised]
        ELSE [seen EXCEPT !.pc = "provider", !.scan_result = outcome.value,
                          !.invoked = Invoke(k, new_sdk, call)]

\* Decide of a client that stays blocked once it has blocked a call.
Decide_remembers_block(k, new_sdk, call, outcome) ==
    LET seen == [call EXCEPT !.warnings = @ + (IF outcome.warned THEN 1 ELSE 0)]
    IN  IF ~IsNone(outcome.raised)
        THEN [seen EXCEPT !.pc = "done", !.result = outcome.raised]
        ELSE IF \/ ~Truthy(Get(outcome.value, "safe", Bool(TRUE)))
                \/ (~IsNone(call.earlier) /\ call.earlier.blocked)
        THEN [seen EXCEPT !.pc = "done", !.scan_result = outcome.value,
                          !.result = BlockedError(k, outcome.value)]
        ELSE [seen EXCEPT !.pc = "provider", !.scan_result = outcome.value,
                          !.invoked = Invoke(k, new_sdk, call)]

\* Steps 2 and 3 of an entry point, given the outcome of the scan: raise what
\* the scan raised, raise ShrikeBlockedError for an unsafe result, otherwise
\* call the provider.
Decide(k, new_sdk, call, outcome) ==
    LET seen == [call EXCEPT !.warnings = @ + (IF outcome.warned THEN 1 ELSE 0)]
    IN  IF ~IsNone(outcome.raised)
        THEN [seen EXCEPT !.pc = "done", !.result = outcome.raised]
        ELSE IF ~Truthy(Get(outcome.value, "safe", Bool(TRUE)))
        THEN [seen EXCEPT !.pc = "done", !.scan_result = outcome.value,
                          !.result = BlockedError(k, outcome.value)]
        ELSE [seen EXCEPT !.pc = "provider", !.scan_result = outcome.value,
                          !.invoked = Invoke(k, new_sdk, call)]

\* A scan operation returns the verdict to its caller or raises.
ScanReturn(call, outcome) ==
    IF ~IsNone(outcome.raised)
    THEN [call EXCEPT !.pc = "done", !.result = outcome.raised]
    ELSE [call EXCEPT !.pc = "done", !.scan_result = outcome.value,
                      !.result = Returned(outcome.value)]

(***************************************************************************)
(* Inputs of the calls                                                     *)
(***************************************************************************)
\* n copies of the character c.
RECURSIVE Rep(_, _)
Rep(c, n) ==
    IF n = 0 THEN ""
    ELSE IF n % 2 = 1 THEN c \o Rep(c, n - 1)
    ELSE LET half == Rep(c, n \div 2) IN half \o half

Message(role, content) == ("role" :> Str(role)) @@ ("content" :> content)
TextBlock(s) == ("type" :> Str("text")) @@ ("text" :> Str(s))
ImageBlock == ("type" :> Str("image")) @@ ("source" :> Str("base64"))

\* How far beyond MAX_CONTENT_SIZE the drawn texts go.
MaxExcess == 1

Sizes == {MAX_CONTENT_SIZE - 3, MAX_CONTENT_SIZE} \cup
         {MAX_CONTENT_SIZE + d : d \in 1..MaxExcess}

MessageLists ==
    {List(<<Message("user", Str("hello"))>>),
     List(<<Message("system", Str("be brief")), Message("user", Str("A")),
            Message("assistant", Str("B")), Message("user", Str("C"))>>),
     List(<<Message("assistant", Str("B"))>>),
     List(<<Message("user", Str(" \n"))>>),
     List(<<Message("user", List(<<TextBlock("A"), ImageBlock, Str("S")>>))>>)}
    \cup {List(<<Message("user", Str(Rep("x", n)))>>) : n \in Sizes}

Contents ==
    {Str("hello"), Str(""),
     List(<<Str("A"), ("text" :> Str("B"))>>),
     List(<<("role" :> Str("user")) @@ ("parts" :> List(<<Str("A")>>)),
            ("role" :> Str("model")) @@ ("parts" :> List(<<("text" :> Str("B"))>>))>>),
     ("parts" :> List(<<Str(" ")>>)),
     ("inline_data" :> Str("png")),
     List(<<("inline_data" :> Str("png"))>>),
     None}
    \cup {Str(Rep("x", n)) : n \in Sizes}

Prompts == {"hello", ""} \cup {Rep("x", n) : n \in Sizes}
Contexts == {None, Str("ctx")}

\* The arguments an entry point may be called with.
ArgsOf(entry) ==
    IF entry = "create" THEN [messages : MessageLists, stream : BOOLEAN]
    ELSE IF entry = "stream" THEN [messages : MessageLists]
    ELSE IF entry = "generate_content" THEN [contents : Contents, stream : BOOLEAN]
    ELSE IF entry \in {"generate_content_stream", "generate_content_async",
                       "send_message", "send_message_async"}
         THEN [contents : Contents]
    ELSE IF entry = "scan" THEN [prompt : Prompts, context : Contexts]
    ELSE IF entry = "scan_sql" THEN [query : Prompts, database : {None}, allow_destructive : {FALSE}]
    ELSE [path : Prompts, content : Contexts]

Violations == List(<<("type" :> Str("sqli")) @@ ("description" :> Str("tautology"))>>)

\* JSON bodies of 2xx replies of the scan backend.
ScanBodies ==
    {("safe" :> Bool(TRUE)),
     ("safe" :> Bool(TRUE)) @@ ("reason" :> Str("ok")) @@ ("detected_by" :> Str("L3")),
     ("safe" :> Bool(FALSE)) @@ ("threat_type" :> Str("sqli")) @@ ("confidence" :> Num(95)),
     ("safe" :> Bool(FALSE)) @@ ("threat_type" :> Str("Jailbreak-Attempt"))
        @@ ("confidence" :> Num(75)) @@ ("severity" :> Str("LOW"))
        @@ ("reason" :> Str("matched rule 17")) @@ ("matched_pattern" :> Str("ignore .*"))
        @@ ("violations" :> Violations),
     ("safe" :> Bool(FALSE)) @@ ("confidence" :> Num(50)),
     ("threat_type" :> Str("sqli")) @@ ("confidence" :> Num(95)),
     ("safe" :> Bool(FALSE)) @@ ("confidence" :> Str("high")),
     List(<<>>)}

\* What the transport may answer a post with.
Replies ==
    {[kind |-> "timeout"],
     [kind |-> "connect_error", message |-> "Connection refused"],
     [kind |-> "status", code |-> 500],
     [kind |-> "status", code |-> 401],
     [kind |-> "bad_json", message |-> "Expecting value"]}
    \cup {[kind |-> "body", json |-> b] : b \in ScanBodies}

ProviderResponses == {"response"}

(***************************************************************************)
(* The transport of the scan requests.  __init__ of every client class     *)
(* assigns self._http once (httpx.Client or httpx.AsyncClient) and no      *)
(* other statement assigns it: created counts the transports made for the  *)
(* client, closed is the state of the httpx client, scope the with-block   *)
(* the client is used in ("none", the form of the block while inside it,   *)
(* "left" after it) and body_raised whether the block was left by an       *)
(* exception.                                                              *)
(***************************************************************************)
NoTransport == [created |-> 0, closed |-> FALSE, scope |-> "none", body_raised |-> FALSE]

Transport == [created |-> 1, closed |-> FALSE, scope |-> "none", body_raised |-> FALSE]

(***************************************************************************)
(* The clients: actions                                                    *)
(***************************************************************************)
NoFn == fn = "none" /\ arg = None /\ ret = NotRun /\ ret2 = NotRun

Init ==
    /\ kind \in Kinds
    /\ fail_mode \in (IF kind \in ScanKinds THEN {"none"} ELSE FailModes)
    /\ use_new_sdk \in (IF kind = "ShrikeGemini" THEN BOOLEAN ELSE {TRUE})
    /\ http = Transport
    /\ calls = [t \in Tasks |-> Idle]
    /\ NoFn

Post(call, url, body) ==
    [call EXCEPT !.pc = "scanning", !.posts = @ + 1, !.request = [url |-> url, json |-> body]]

\* _scan_messages and _scan_content without the test for a blank text.
ScanText_always_posts(k, new_sdk, call, text, nothing) ==
    Post(call, "/scan", ("prompt" :> Str(text)))

\* _scan_messages and _scan_content with a memo of the last text scanned:
\* the text of the previous request is taken as safe without a post.
ScanText_memoized(k, new_sdk, call, text, nothing) ==
    IF IsBlank(text)
    THEN Decide(k, new_sdk, call,
                ScanOutcome(("safe" :> Bool(TRUE)) @@ ("reason" :> Str(nothing)), None, FALSE))
    ELSE IF /\ ~IsNone(call.earlier)
            /\ call.earlier.request = [url |-> "/scan", json |-> ("prompt" :> Str(text))]
    THEN Decide(k, new_sdk, call,
                ScanOutcome(("safe" :> Bool(TRUE)) @@ ("reason" :> Str("memo")), None, FALSE))
    ELSE Post(call, "/scan", ("prompt" :> Str(text)))

\* _scan_messages and _scan_content up to the post: a blank text is safe
\* without a scan, any other text is posted.
ScanText(k, new_sdk, call, text, nothing) ==
    IF IsBlank(text)
    THEN Decide(k, new_sdk, call,
                ScanOutcome(("safe" :> Bool(TRUE)) @@ ("reason" :> Str(nothing)), None, FALSE))
    ELSE Post(call, "/scan", ("prompt" :> Str(text)))

\* A guarded entry point up to the post of the scan request.
GuardedCall(k, new_sdk, call) ==
    IF k \in AnthropicKinds
    THEN ScanText(k, new_sdk, call, anthropic_extract_user_content(call.args.messages.list),
                  "No user content to scan")
    ELSE IF k = "ShrikeAsyncOpenAI"
    THEN ScanText(k, new_sdk, call, openai_extract_user_content(call.args.messages.list),
                  "No user content to scan")
    ELSE ScanText(k, new_sdk, call, _extract_content(call.args.contents),
                  "No text content to scan")

SqlPayload(a, flag) ==
       ("content" :> Str(a.query)) @@ ("content_type" :> Str("sql"))
    @@ ("context" :> (("database" :> Str(IF Truthy(a.database) THEN a.database.str ELSE ""))
                      @@ ("allow_destructive" :> Str(flag))))

FilePayload(a) ==
    IF Truthy(a.content)
    THEN ("content" :> Str(a.path)) @@ ("content_type" :> Str("file_content"))
         @@ ("context" :> ("file_content" :> a.content))
    ELSE ("content" :> Str(a.path)) @@ ("content_type" :> Str("file_path"))

\* ScanClient / AsyncScanClient scan, scan_sql, scan_file up to the post.
ScannerCall(call) ==
    LET a == call.args
        size_result == IF call.entry = "scan" THEN _check_content_size(a.prompt, a.context)
                       ELSE IF call.entry = "scan_sql" THEN _check_content_size(a.query, None)
                       ELSE _check_content_size(a.path, a.content)
    IN  IF ~IsNone(size_result)
        THEN ScanReturn(call, ScanOutcome(size_result, None, FALSE))
        ELSE IF call.entry = "scan"
        THEN Post(call, "/scan",
                  IF Truthy(a.context)
                  THEN ("prompt" :> Str(a.prompt)) @@ ("context" :> a.context)
                  ELSE ("prompt" :> Str(a.prompt)))
        ELSE IF call.entry = "scan_sql"
        THEN Post(call, "/api/scan/specialized",
                  SqlPayload(a, IF a.allow_destructive THEN "True" ELSE "False"))
        ELSE Post(call, "/api/scan/specialized", FilePayload(a))

\* ShrikeAsyncOpenAI.scan_sql and scan_file up to the post.
OpenAIScanCall(call) ==
    IF call.entry = "scan_sql"
    THEN Post(call, "/api/scan/specialized",
              SqlPayload(call.args, IF call.args.allow_destructive THEN "true" ELSE "false"))
    ELSE Post(call, "/api/scan/specialized", FilePayload(call.args))

\* Task t calls an entry point; the call runs up to its post to the scan
\* backend, or to its end when it posts nothing.
Call(t, entry, args) ==
    /\ calls[t].pc = "idle"
    /\ LET call == [Idle EXCEPT !.entry = entry, !.args = args,
                                !.earlier = calls[t].earlier]
       IN  calls' = [calls EXCEPT ![t] =
                IF entry \in GuardedEntries(kind) THEN GuardedCall(kind, use_new_sdk, call)
                ELSE IF kind \in ScanKinds THEN ScannerCall(call)
                ELSE OpenAIScanCall(call)]
    /\ UNCHANGED <<clientvars, fnvars>>

\* TransportReplies of a client that keeps the verdict in an attribute of
\* its own: the answer to the post of task t decides every call that waits
\* for a verdict.
TransportReplies_shared_verdict(t, reply) ==
    /\ calls[t].pc = "scanning"
    /\ calls' = [u \in DOMAIN calls |->
            IF calls[u].pc # "scanning" THEN calls[u]
            ELSE LET call == IF u = t THEN [calls[u] EXCEPT !.reply = reply] ELSE calls[u]
                 IN  IF call.entry \in GuardedEntries(kind)
                     THEN Decide(kind, use_new_sdk, call, _remote_scan(fail_mode, reply))
                     ELSE IF kind \in ScanKinds THEN ScanReturn(call, scanner_scan(reply))
                     ELSE ScanReturn(call, openai_specialized_scan(fail_mode, reply,
                                    IF call.entry = "scan_sql" THEN "SQL" ELSE "File"))]
    /\ UNCHANGED <<clientvars, fnvars>>

\* The transport answers the post of task t; the call runs on to the call of
\* the provider, or to its end.
TransportReplies(t, reply) ==
    /\ calls[t].pc = "scanning"
    /\ LET call == [calls[t] EXCEPT !.reply = reply]
       IN  calls' = [calls EXCEPT ![t] =
                IF call.entry \in GuardedEntries(kind)
                THEN Decide(kind, use_new_sdk, call, _remote_scan(fail_mode, reply))
                ELSE IF kind \in ScanKinds THEN ScanReturn(call, scanner_scan(reply))
                ELSE ScanReturn(call, openai_specialized_scan(fail_mode, reply,
                                    IF call.entry = "scan_sql" THEN "SQL" ELSE "File"))]
    /\ UNCHANGED <<clientvars, fnvars>>

\* The provider answers; the entry point returns the answer as it is.
ProviderReturns(t, response) ==
    /\ calls[t].pc = "provider"
    /\ calls' = [calls EXCEPT ![t].pc = "done", ![t].result = Returned(response)]
    /\ UNCHANGED <<clientvars, fnvars>>

\* The task of the call was cancelled while its scan request was in flight.
WasCancelled(call) == ~IsNone(call.reply) /\ call.reply.kind = "cancelled"

\* The call ended by raising ShrikeBlockedError.
WasBlocked(call) == IsRaised(call.result) /\ call.result.raised = "ShrikeBlockedError"

\* The caller of task t has taken the result; the task is free again.  What
\* the call requested, and whether it was cancelled or blocked, is remembered.
Finish(t) ==
    /\ calls[t].pc = "done"
    /\ calls' = [calls EXCEPT ![t] = [Idle EXCEPT !.earlier =
                    [request |-> calls[t].request, cancelled |-> WasCancelled(calls[t]),
                     blocked |-> WasBlocked(calls[t])]]]
    /\ UNCHANGED <<clientvars, fnvars>>

Next ==
    \/ \E t \in Tasks : \E entry \in EntryPoints(kind) : \E args \in ArgsOf(entry) :
          Call(t, entry, args)
    \/ \E t \in Tasks : \E reply \in Replies : TransportReplies(t, reply)
    \/ \E t \in Tasks : \E response \in ProviderResponses : ProviderReturns(t, response)
    \/ \E t \in Tasks : Finish(t)

Spec == Init /\ [][Next]_vars

(***************************************************************************)
(* Construction of an adapter                                              *)
(***************************************************************************)
\* A member of the enum FailMode.
Member(name) == [member |-> name]

\* Values a caller may pass as fail_mode: the two literals, the two
\* members, other strings and values that are not strings.
FailModeArgs ==
    {Str("open"), Str("closed"), Member("open"), Member("closed"),
     Str("OPEN"), Str("strict"), None}

\* FailMode(fail_mode) if isinstance(fail_mode, str) else fail_mode.  The
\* enum raises ValueError for a string that is not the value of a member;
\* a value that is not a string is kept as it is ("other": it equals no
\* member, so every test == FailMode.OPEN is false for it).
StoredFailMode(v) ==
    IF IsStr(v)
    THEN (IF v.str \in FailModes THEN Returned(v.str)
          ELSE Raised("ValueError", [message |-> v.str \o " is not a valid FailMode"]))
    ELSE IF "member" \in DOMAIN v THEN Returned(v.member)
    ELSE Returned("other")

ConsInit ==
    /\ kind = "none" /\ fail_mode = "none" /\ use_new_sdk = TRUE /\ http = NoTransport
    /\ calls = [t \in Tasks |-> Idle]
    /\ NoFn

\* __init__ of an adapter class: the adapter exists once it has returned.
Construct(k, v, new_sdk) ==
    /\ kind = "none" /\ fn = "none"
    /\ fn' = "__init__"
    /\ arg' = [cls |-> k, fail_mode |-> v]
    /\ LET stored == StoredFailMode(v)
       IN  IF IsReturned(stored)
           THEN /\ kind' = k /\ fail_mode' = stored.returned /\ use_new_sdk' = new_sdk
                /\ http' = Transport
                /\ ret' = None
           ELSE ret' = Exc(stored.raised) /\ UNCHANGED clientvars
    /\ UNCHANGED <<calls, ret2>>

ConsNext ==
    \/ \E k \in AdapterKinds : \E v \in FailModeArgs :
          \E new_sdk \in (IF k = "ShrikeGemini" THEN BOOLEAN ELSE {TRUE}) :
             Construct(k, v, new_sdk)
    \/ Next

SpecCons == ConsInit /\ [][ConsNext]_vars

(***************************************************************************)
(* The asynchronous entry points on one event loop                         *)
(***************************************************************************)
\* The tasks of the event loop.
AsyncTasks == {"t1", "t2"}

\* The classes that have asynchronous entry points, and those entry points.
AsyncKinds == {"ShrikeAsyncOpenAI", "ShrikeAsyncAnthropic", "ShrikeGemini"}

AsyncEntries(k) ==
    IF k = "ShrikeGemini" THEN {"generate_content_async", "send_message_async"}
    ELSE EntryPoints(k)

AsyncArgsOf(entry) ==
    IF entry = "create"
    THEN [messages : {List(<<Message("user", Str("hello"))>>),
                      List(<<Message("assistant", Str("B"))>>)}, stream : {FALSE}]
    ELSE IF entry = "stream" THEN [messages : {List(<<Message("user", Str("hello"))>>)}]
    ELSE IF entry \in {"generate_content_async", "send_message_async"}
         THEN [contents : {Str("hello"), Str("")}]
    ELSE IF entry = "scan_sql"
         THEN [query : {"hello"}, database : {None}, allow_destructive : {FALSE}]
    ELSE [path : {"hello"}, content : {None}]

AsyncReplies ==
    {[kind |-> "timeout"],
     [kind |-> "status", code |-> 500],
     [kind |-> "body", json |-> ("safe" :> Bool(TRUE))],
     [kind |-> "body", json |-> ("safe" :> Bool(FALSE)) @@ ("threat_type" :> Str("sqli"))
                                @@ ("confidence" :> Num(95))]}

\* Blocking when every class posts the scan through a synchronous client.
Blocking_every_scan(k, new_sdk, call) ==
    \/ call.pc = "scanning"
    \/ /\ k = "ShrikeGemini" /\ call.pc = "provider"
       /\ ProviderMethod(k, new_sdk, call.entry, call.args) = "chat.send_message"

\* The call holds the event loop: it is inside a call that does not await.
\* The Gemini adapter posts the scan through the synchronous httpx.Client
\* from its asynchronous entry points, and sends a chat message of the new
\* SDK without await; the other adapters await self._http.post and the
\* provider.
Blocking(k, new_sdk, call) ==
    /\ k = "ShrikeGemini"
    /\ \/ call.pc = "scanning"
       \/ /\ call.pc = "provider"
          /\ ProviderMethod(k, new_sdk, call.entry, call.args) = "chat.send_message"

\* No task other than t holds the event loop.
LoopFree(t) == \A u \in DOMAIN calls \ {t} : ~Blocking(kind, use_new_sdk, calls[u])

\* asyncio.CancelledError caught by `except Exception` (as it was a subclass
\* of Exception before Python 3.8).
_remote_scan_cancel_caught(fm) ==
    IF fm = "open" THEN FailOpen("Scan error: ", FALSE)
    ELSE FailClosed("Scan failed: ")

\* _remote_scan when the awaited post is cancelled: asyncio.CancelledError
\* is a BaseException, no except clause of _remote_scan catches it.
_remote_scan_cancelled(fm) ==
    ScanOutcome(None, Raised("CancelledError", [message |-> ""]), FALSE)

AsyncInit ==
    /\ kind \in AsyncKinds
    /\ fail_mode \in FailModes
    /\ use_new_sdk \in (IF kind = "ShrikeGemini" THEN BOOLEAN ELSE {TRUE})
    /\ http = Transport
    /\ calls = [t \in AsyncTasks |-> Idle]
    /\ NoFn

\* A task runs when the loop is not held by another task.
AsyncCall(t, entry, args) == LoopFree(t) /\ Call(t, entry, args)
AsyncTransportReplies(t, reply) == LoopFree(t) /\ TransportReplies(t, reply)
AsyncProviderReturns(t, response) == LoopFree(t) /\ ProviderReturns(t, response)
AsyncFinish(t) == LoopFree(t) /\ Finish(t)

\* Task t is cancelled while it is suspended in an await: the awaited post
\* or provider call raises CancelledError in the task.
Cancel(t) ==
    /\ LoopFree(t)
    /\ calls[t].pc \in {"scanning", "provider"}
    /\ ~Blocking(kind, use_new_sdk, calls[t])
    /\ LET call == [calls[t] EXCEPT !.reply =
                        IF calls[t].pc = "scanning" THEN [kind |-> "cancelled"] ELSE @]
       IN  calls' = [calls EXCEPT ![t] =
                IF call.pc = "provider"
                THEN [call EXCEPT !.pc = "done",
                                  !.result = Raised("CancelledError", [message |-> ""])]
                ELSE IF call.entry \in GuardedEntries(kind)
                THEN Decide(kind, use_new_sdk, call, _remote_scan_cancelled(fail_mode))
                ELSE ScanReturn(call, _remote_scan_cancelled(fail_mode))]
    /\ UNCHANGED <<clientvars, fnvars>>

\* The steps task t can take.
TaskStep(t) ==
    \/ \E entry \in AsyncEntries(kind) : \E args \in AsyncArgsOf(entry) :
          AsyncCall(t, entry, args)
    \/ \E reply \in AsyncReplies : AsyncTransportReplies(t, reply)
    \/ \E response \in ProviderResponses : AsyncProviderReturns(t, response)
    \/ AsyncFinish(t)
    \/ Cancel(t)

AsyncNext ==
    \/ \E t \in AsyncTasks : \E entry \in AsyncEntries(kind) :
          \E args \in AsyncArgsOf(entry) : AsyncCall(t, entry, args)
    \/ \E t \in AsyncTasks : \E reply \in AsyncReplies : AsyncTransportReplies(t, reply)
    \/ \E t \in AsyncTasks : \E response \in ProviderResponses :
          AsyncProviderReturns(t, response)
    \/ \E t \in AsyncTasks : AsyncFinish(t)
    \/ \E t \in AsyncTasks : Cancel(t)

SpecAsync == AsyncInit /\ [][AsyncNext]_vars

(***************************************************************************)
(* Concurrent calls on one client: two threads calling a synchronous       *)
(* adapter, or two tasks calling an asynchronous one.  An entry point      *)
(* works on its arguments and local variables and reads attributes of the  *)
(* client that only __init__ assigns, so the steps of a call between its   *)
(* blocking or awaited calls are taken as one.                             *)
(***************************************************************************)
ThreadKinds == {"ShrikeAnthropic", "ShrikeGemini"}
TaskKinds == {"ShrikeAsyncAnthropic", "ShrikeAsyncOpenAI"}

ConcEntries(k) ==
    IF k = "ShrikeGemini" THEN {"generate_content", "send_message"}
    ELSE GuardedEntries(k)

ConcArgsOf(entry) ==
    IF entry = "generate_content" THEN [contents : {Str("hello"), Str("")}, stream : {FALSE}]
    ELSE IF entry = "send_message" THEN [contents : {Str("hello")}]
    ELSE AsyncArgsOf(entry)

ConcInit ==
    /\ kind \in ThreadKinds \cup TaskKinds
    /\ fail_mode \in FailModes
    /\ use_new_sdk \in (IF kind = "ShrikeGemini" THEN BOOLEAN ELSE {TRUE})
    /\ http = Transport
    /\ calls = [t \in AsyncTasks |-> Idle]
    /\ NoFn

ConcNext ==
    \/ \E t \in AsyncTasks : \E entry \in ConcEntries(kind) : \E args \in ConcArgsOf(entry) :
          Call(t, entry, args)
    \/ \E t \in AsyncTasks : \E reply \in AsyncReplies : TransportReplies(t, reply)
    \/ \E t \in AsyncTasks : \E response \in ProviderResponses : ProviderReturns(t, response)
    \/ \E t \in AsyncTasks : Finish(t)
    \/ \E t \in AsyncTasks : kind \in TaskKinds /\ Cancel(t)   \* a thread is not cancelled

SpecConc == ConcInit /\ [][ConcNext]_vars

(***************************************************************************)
(* Lifetime of a client: close(), and the client as the resource of a      *)
(* with-block.  ShrikeAnthropic, ShrikeGemini and ScanClient define        *)
(* __enter__ and __exit__; ShrikeAsyncAnthropic, ShrikeAsyncOpenAI and     *)
(* AsyncScanClient define __aenter__ and __aexit__.                        *)
(***************************************************************************)
SyncScopeKinds == {"ShrikeAnthropic", "ShrikeGemini", "ScanClient"}
AsyncScopeKinds == {"ShrikeAsyncAnthropic", "ShrikeAsyncOpenAI", "AsyncScanClient"}

\* The forms of with-block class k can be the resource of.
ScopeForms(k) ==
    (IF k \in SyncScopeKinds THEN {"with"} ELSE {}) \cup
    (IF k \in AsyncScopeKinds THEN {"async with"} ELSE {})

\* close(): self._http.close(), or await self._http.aclose().
close(h) == [h EXCEPT !.closed = TRUE]

\* __exit__ closing the transport only when the block ended normally.
__exit___on_success_only(h, raised) ==
    [(IF raised THEN h ELSE close(h)) EXCEPT !.scope = "left", !.body_raised = raised]

\* __exit__(self, *args) and __aexit__(self, *args): close(), whatever the
\* arguments say about an exception of the block; the exception, if any,
\* propagates (the method returns None).
__exit__(h, raised) ==
    [close(h) EXCEPT !.scope = "left", !.body_raised = raised]

\* What httpx answers a post on a closed client with: it raises RuntimeError
\* before anything is sent.
ClosedReply ==
    [kind |-> "closed", message |-> "Cannot send a request, as the client has been closed."]

\* The arguments of the calls; kwargs holds the keyword arguments beyond
\* those an entry point names (**kwargs).
ScopeArgsOf(entry) ==
    LET ExtraKwargs == {<<>>, ("temperature" :> Num(50))}
    IN
    IF entry = "create"
    THEN [messages : {List(<<Message("user", Str("hello"))>>),
                      List(<<Message("user", Str(" "))>>)}, stream : BOOLEAN,
          kwargs : ExtraKwargs]
    ELSE IF entry = "stream"
    THEN [messages : {List(<<Message("user", Str("hello"))>>)}, kwargs : ExtraKwargs]
    ELSE IF entry = "generate_content"
    THEN [contents : {Str("hello"), Str("")}, stream : BOOLEAN, kwargs : ExtraKwargs]
    ELSE IF entry \in {"generate_content_stream", "generate_content_async",
                       "send_message", "send_message_async"}
         THEN [contents : {Str("hello")}, kwargs : ExtraKwargs]
    ELSE IF entry = "scan" THEN [prompt : {"hello"}, context : {None}]
    ELSE IF entry = "scan_sql"
         THEN [query : {"hello"}, database : {None}, allow_destructive : {FALSE}]
    ELSE [path : {"hello"}, content : {None}]

AllIdle == \A t \in Tasks : calls[t].pc = "idle"

\* with client: / async with client: __enter__ and __aenter__ return self.
EnterScope(form) ==
    /\ AllIdle
    /\ http.scope = "none"
    /\ form \in ScopeForms(kind)
    /\ http' = [http EXCEPT !.scope = form]
    /\ UNCHANGED <<kind, fail_mode, use_new_sdk, calls, fnvars>>

\* The block ends, normally or by an exception.
LeaveScope(raised) ==
    /\ AllIdle
    /\ http.scope \in ScopeForms(kind)
    /\ http' = __exit__(http, raised)
    /\ UNCHANGED <<kind, fail_mode, use_new_sdk, calls, fnvars>>

\* close() called by the owner of the client (closing a closed httpx client
\* changes nothing).
Close ==
    /\ AllIdle
    /\ ~http.closed
    /\ http' = close(http)
    /\ UNCHANGED <<kind, fail_mode, use_new_sdk, calls, fnvars>>

\* A call on a client whose transport is closed: the call runs as any call
\* up to its post, which raises at once; the call runs on from there as
\* from any reply of the transport.
ClosedCall(t, entry, args) ==
    /\ http.closed
    /\ calls[t].pc = "idle"
    /\ LET call == [Idle EXCEPT !.entry = entry, !.args = args,
                                !.earlier = calls[t].earlier]
           begun == IF entry \in GuardedEntries(kind) THEN GuardedCall(kind, use_new_sdk, call)
                    ELSE IF kind \in ScanKinds THEN ScannerCall(call)
                    ELSE OpenAIScanCall(call)
           failed == [begun EXCEPT !.reply = ClosedReply]
       IN  calls' = [calls EXCEPT ![t] =
                IF begun.pc # "scanning" THEN begun
                ELSE IF entry \in GuardedEntries(kind)
                THEN Decide(kind, use_new_sdk, failed, _remote_scan(fail_mode, ClosedReply))
                ELSE IF kind \in ScanKinds THEN ScanReturn(failed, scanner_scan(ClosedReply))
                ELSE ScanReturn(failed, openai_specialized_scan(fail_mode, ClosedReply,
                                    IF entry = "scan_sql" THEN "SQL" ELSE "File"))]
    /\ UNCHANGED <<clientvars, fnvars>>

ScopeNext ==
    \/ \E form \in {"with", "async with"} : EnterScope(form)
    \/ \E raised \in BOOLEAN : LeaveScope(raised)
    \/ Close
    \/ \E t \in Tasks : \E entry \in EntryPoints(kind) : \E args \in ScopeArgsOf(entry) :
          ~http.closed /\ Call(t, entry, args)
    \/ \E t \in Tasks : \E entry \in EntryPoints(kind) : \E args \in ScopeArgsOf(entry) :
          ClosedCall(t, entry, args)
    \/ \E t \in Tasks : \E reply \in AsyncReplies : TransportReplies(t, reply)
    \/ \E t \in Tasks : \E response \in ProviderResponses : ProviderReturns(t, response)
    \/ \E t \in Tasks : Finish(t)

SpecScope == Init /\ [][ScopeNext]_vars

(***************************************************************************)
(* Inputs of the pure functions                                            *)
(***************************************************************************)
\* Largest confidence score drawn, in hundredths (scores run from
\* -MaxScore to MaxScore, so out-of-range scores are covered).
MaxScore == 101
\* Longest label enumerated letter by letter.
MaxLabelLen == 3

Absent == [absent |-> TRUE]

\* The dict holding the fields of f that are present.
DictOf(f) == [k \in {j \in DOMAIN f : f[j] # Absent} |-> f[k]]

UpperChar(c) ==
    IF \E i \in 1..Len(LOWERCASE) : Char(LOWERCASE, i) = c
    THEN Char(UPPERCASE, CHOOSE i \in 1..Len(LOWERCASE) : Char(LOWERCASE, i) = c)
    ELSE c

RECURSIVE upper(_)
upper(s) == IF s = "" THEN "" ELSE UpperChar(Char(s, 1)) \o upper(Tail(s))

\* s with its first letter in upper case.
capitalize(s) == IF s = "" THEN "" ELSE UpperChar(Char(s, 1)) \o Tail(s)

LabelAlphabet == {"p", "i", "P", "I", "s", "-", "_"}

RECURSIVE LabelsUpTo(_)
LabelsUpTo(n) ==
    IF n = 0 THEN {""}
    ELSE LET shorter == LabelsUpTo(n - 1)
         IN  shorter \cup {s \o c : s \in {t \in shorter : Len(t) = n - 1}, c \in LabelAlphabet}

UnlistedLabels == {"banana", "sql injection", "sqli ", "_sqli", "unknown", "SQLI2"}

\* Raw threat labels: every key of the table as written, in upper case,
\* capitalized and with hyphens for underscores; unlisted labels; and all
\* short labels over LabelAlphabet.
RawLabels ==
    LET keys == DOMAIN THREAT_TYPE_MAP
    IN  keys \cup {upper(k) : k \in keys} \cup {capitalize(k) : k \in keys}
             \cup {replace(k, "_", "-") : k \in keys}
             \cup {upper(replace(k, "_", "-")) : k \in keys}
             \cup UnlistedLabels \cup LabelsUpTo(MaxLabelLen)

NormalizeInputs == {None} \cup {Str(s) : s \in RawLabels}

Scores == (0 - MaxScore)..MaxScore

BucketInputs == {None} \cup {Num(n) : n \in Scores}

\* Severities as the backend may spell them: the four levels in lower case,
\* upper case and capitalized, and values that are no level.
SeverityLevels == {"critical", "high", "medium", "low"}
RawSeverities ==
    {None, Str(""), Str("severe"), Str("info"), Str("low "), Str("LoW"), Str("hIGH")}
    \cup {Str(l) : l \in SeverityLevels}
    \cup {Str(upper(l)) : l \in SeverityLevels}
    \cup {Str(capitalize(l)) : l \in SeverityLevels}

\* Canonical threat types and types absent from THREAT_SEVERITY.
SeverityThreatTypes == DOMAIN THREAT_SEVERITY \cup {"banana", "", "SQL_INJECTION"}

SeverityInputs == [threat_type : SeverityThreatTypes, raw_severity : RawSeverities]

\* Longest message list drawn for the extractors.
MaxMessages == 3

\* Messages of every role, with string contents, block lists, a list that
\* holds a bare string, and no content.
ExtractMessages ==
    {Message("user", Str("A")), Message("assistant", Str("B")), Message("user", Str("C")),
     Message("system", Str("S")), Message("user", Str("")),
     Message("user", List(<<TextBlock("T"), ImageBlock, TextBlock("U")>>)),
     Message("user", List(<<ImageBlock>>)),
     Message("assistant", List(<<TextBlock("X")>>)),
     Message("user", List(<<("type" :> Str("text"))>>)),
     Message("user", List(<<TextBlock("T"), Str("bare")>>)),
     ("role" :> Str("user")),
     ("content" :> Str("no role"))}

RECURSIVE SeqsUpTo(_, _)
SeqsUpTo(S, n) ==
    IF n = 0 THEN {<<>>}
    ELSE LET shorter == SeqsUpTo(S, n - 1)
         IN  shorter \cup {Append(q, x) : q \in {r \in shorter : Len(r) = n - 1}, x \in S}

ExtractInputs ==
    [adapter : {"ShrikeAnthropic", "ShrikeAsyncAnthropic", "ShrikeAsyncOpenAI"},
     messages : SeqsUpTo(ExtractMessages, MaxMessages)]

SafeOpts == {Absent, Bool(TRUE), Bool(FALSE), None}
ThreatOpts == {Absent, None, Str(""), Str("sqli"), Str("SQL-Injection"), Str("banana"),
               Str("pii_extraction"), Str("size_limit")}
ConfidenceOpts == {Absent, None, Num(0), Num(69), Num(70), Num(89), Num(90), Num(95),
                   Num(MaxScore), Str("high")}
SeverityOpts == {Absent, None, Str("LOW"), Str("critical"), Str("severe")}
ReasonOpts == {Absent, Str("matched rule 17")}

\* Each denylisted field alone, all of them together, and fields that are
\* neither canonical nor denylisted.
ExtraOpts ==
    {<<>>}
    \cup {(k :> Str("internal")) : k \in _INTERNAL_FIELDS}
    \cup {[k \in _INTERNAL_FIELDS |-> Str("internal")]}
    \cup {("violations" :> Violations), ("guidance" :> Str("raw guidance")),
          ("threat_level" :> Str("high") @@ "request_id" :> Str("r-1"))}

RawVerdicts ==
    {DictOf([safe |-> s, threat_type |-> t, confidence |-> c, severity |-> v, reason |-> r]) @@ x :
        s \in SafeOpts, t \in ThreatOpts, c \in ConfidenceOpts,
        v \in SeverityOpts, r \in ReasonOpts, x \in ExtraOpts}

SanitizeInputs == RawVerdicts

(***************************************************************************)
(* Pure functions applied to drawn inputs                                  *)
(***************************************************************************)
FnInit ==
    /\ fn = "none"
    /\ arg \in [f : {"sanitize_scan_response"}, x : SanitizeInputs]
         \cup [f : {"normalize_threat_type"}, x : NormalizeInputs]
         \cup [f : {"bucket_confidence"}, x : BucketInputs]
         \cup [f : {"derive_severity"}, x : SeverityInputs]
         \cup [f : {"_extract_user_content"}, x : ExtractInputs]
    /\ ret = NotRun
    /\ ret2 = NotRun
    /\ kind = "none" /\ fail_mode = "none" /\ use_new_sdk = TRUE /\ http = NoTransport
    /\ calls = <<>>

ApplySanitize ==
    /\ fn = "none"
    /\ arg.f = "sanitize_scan_response"
    /\ fn' = arg.f
    /\ ret' = sanitize_scan_response(arg.x)
    /\ UNCHANGED <<arg, ret2, clientvars, calls>>

\* The sanitized verdict handed to the sanitizer once more.
Resanitize ==
    /\ fn = "sanitize_scan_response"
    /\ IsDict(ret)
    /\ fn' = "resanitize"
    /\ ret2' = sanitize_scan_response(ret)
    /\ UNCHANGED <<arg, ret, clientvars, calls>>

ApplyNormalize ==
    /\ fn = "none"
    /\ arg.f = "normalize_threat_type"
    /\ fn' = arg.f
    /\ ret' = normalize_threat_type(arg.x)
    /\ UNCHANGED <<arg, ret2, clientvars, calls>>

ApplyBucket ==
    /\ fn = "none"
    /\ arg.f = "bucket_confidence"
    /\ fn' = arg.f
    /\ ret' = bucket_confidence(arg.x)
    /\ UNCHANGED <<arg, ret2, clientvars, calls>>

ApplySeverity ==
    /\ fn = "none"
    /\ arg.f = "derive_severity"
    /\ fn' = arg.f
    /\ ret' = derive_severity(arg.x.threat_type, arg.x.raw_severity)
    /\ UNCHANGED <<arg, ret2, clientvars, calls>>

ApplyExtract ==
    /\ fn = "none"
    /\ arg.f = "_extract_user_content"
    /\ fn' = arg.f
    /\ ret' = IF arg.x.adapter \in AnthropicKinds
              THEN Str(anthropic_extract_user_content(arg.x.messages))
              ELSE Str(openai_extract_user_content(arg.x.messages))
    /\ UNCHANGED <<arg, ret2, clientvars, calls>>

FnNext ==
    \/ ApplySanitize \/ Resanitize \/ ApplyNormalize \/ ApplyBucket \/ ApplySeverity
    \/ ApplyExtract

SpecFn == FnInit /\ [][FnNext]_vars

(***************************************************************************)
(* The sanitizer applied to two raw responses                              *)
(***************************************************************************)
\* Two raw responses with the same safe, severity and reason fields; the
\* label, the score and the other fields of each are drawn freely.
RawPairs ==
    LET PairSafeOpts == {Absent, Bool(TRUE), Bool(FALSE)}
        PairThreatOpts == {Absent, Str("sqli"), Str("SQL-Injection"), Str("banana")}
        PairConfidenceOpts ==
            {Absent, Num(69), Num(70), Num(89), Num(90), Num(95), Str("high")}
        PairSeverityOpts == {Absent, Str("LOW")}
        PairExtraOpts ==
            {<<>>, [k \in _INTERNAL_FIELDS |-> Str("internal")], ("request_id" :> Str("r-1"))}
    IN
    {[f |-> "sanitize_scan_response",
      x |-> DictOf([safe |-> s, threat_type |-> p.t1, confidence |-> p.c1,
                    severity |-> v, reason |-> r]) @@ p.x1,
      y |-> DictOf([safe |-> s, threat_type |-> p.t2, confidence |-> p.c2,
                    severity |-> v, reason |-> r]) @@ p.x2] :
        s \in PairSafeOpts, v \in PairSeverityOpts, r \in ReasonOpts,
        p \in [t1 : PairThreatOpts, t2 : PairThreatOpts,
               c1 : PairConfidenceOpts, c2 : PairConfidenceOpts,
               x1 : PairExtraOpts, x2 : PairExtraOpts]}

PairInit ==
    /\ fn = "none"
    /\ arg \in RawPairs
    /\ ret = NotRun
    /\ ret2 = NotRun
    /\ kind = "none" /\ fail_mode = "none" /\ use_new_sdk = TRUE /\ http = NoTransport
    /\ calls = <<>>

\* Both responses are sanitized.
ApplySanitizePair ==
    /\ fn = "none"
    /\ fn' = "sanitize_pair"
    /\ ret' = sanitize_scan_response(arg.x)
    /\ ret2' = sanitize_scan_response(arg.y)
    /\ UNCHANGED <<arg, clientvars, calls>>

PairNext == ApplySanitizePair

SpecPair == PairInit /\ [][PairNext]_vars

(***************************************************************************)
(* Properties of the sanitizer                                             *)
(***************************************************************************)
SafeVerdictKeys == {"safe", "reason"}
UnsafeVerdictKeys == {"safe", "threat_type", "severity", "confidence", "reason", "guidance"}
Denylist ==
    {"detected_by", "policy_id", "policy_name", "matched_pattern", "matched_text",
     "pattern", "scan_stage", "ai_reasoning", "llm_analysis", "performance_metrics",
     "performance"}

\* The raw response counts as safe: its "safe" field is absent or truthy.
RawIsSafe(raw) == "safe" \notin DOMAIN raw \/ Truthy(raw["safe"])

Sanitized == fn \in {"sanitize_scan_response", "resanitize"} /\ IsDict(ret)

\* C7: whatever fields the raw response carries, a verdict returned by
\* sanitize_scan_response has exactly the keys {safe, reason} when the
\* response is safe and exactly {safe, threat_type, severity, confidence,
\* reason, guidance} when it is unsafe, and never a denylisted field.
C7_VerdictKeySet ==
    Sanitized =>
        /\ RawIsSafe(arg.x) => DOMAIN ret = SafeVerdictKeys /\ ret["safe"] = Bool(TRUE)
        /\ ~RawIsSafe(arg.x) => DOMAIN ret = UnsafeVerdictKeys /\ ret["safe"] = Bool(FALSE)
        /\ DOMAIN ret \cap Denylist = {}

C7_Witness ==
    /\ Sanitized
    /\ ~RawIsSafe(arg.x)
    /\ Denylist \subseteq DOMAIN arg.x
    /\ DOMAIN ret = UnsafeVerdictKeys

\* C8: sanitizing a sanitized verdict completes and gives the same verdict,
\* for safe and unsafe raw verdicts alike.
C8_Idempotent == fn = "resanitize" => ret2 = ret

(***************************************************************************)
(* Properties of normalize_threat_type                                     *)
(***************************************************************************)
CanonicalCategories ==
    {"prompt_injection", "jailbreak", "system_prompt_leak", "data_exfiltration",
     "sql_injection", "path_traversal", "secrets_exposure", "pii_exposure",
     "blocked_domain", "toxicity", "malicious_code", "harmful_intent",
     "social_engineering", "privilege_escalation", "destructive_operation",
     "scan_error", "size_limit_exceeded"}

\* Label s is key k up to letter case and hyphens written for underscores.
SpellsKey(s, k) ==
    /\ Len(s) = Len(k)
    /\ \A i \in 1..Len(k) :
          \/ Char(s, i) = Char(k, i)
          \/ UpperChar(Char(k, i)) = Char(s, i)
          \/ Char(k, i) = "_" /\ Char(s, i) = "-"

Normalized == fn = "normalize_threat_type"

\* C9: normalize_threat_type returns the category the table assigns to the
\* label read without letter case and with hyphens as underscores, "unknown"
\* for an absent, empty or unlisted label, and always one of the 17
\* canonical categories or "unknown".
C9_Normalize ==
    Normalized =>
        /\ IsStr(ret)
        /\ ret.str \in CanonicalCategories \cup {"unknown"}
        /\ Cardinality(CanonicalCategories) = 17
        /\ IsStr(arg.x) =>
              /\ \A k \in DOMAIN THREAT_TYPE_MAP :
                    SpellsKey(arg.x.str, k) => ret.str = THREAT_TYPE_MAP[k]
              /\ (\A k \in DOMAIN THREAT_TYPE_MAP : ~SpellsKey(arg.x.str, k))
                    => ret.str = "unknown"
        /\ (IsNone(arg.x) \/ arg.x = Str("")) => ret.str = "unknown"
        /\ arg.x \in {Str("sqli"), Str("tautology_or"), Str("union_injection"),
                      Str("TAUTOLOGY-OR"), Str("Union-injection")}
              => ret.str = "sql_injection"
        /\ arg.x = Str("pii_extraction") => ret.str = "pii_exposure"
        /\ arg.x = Str("sensitive_file") => ret.str = "secrets_exposure"
        /\ arg.x = Str("banana") => ret.str = "unknown"

C9_Witness ==
    /\ Normalized
    /\ arg.x = Str("TAUTOLOGY-OR")
    /\ ret = Str("sql_injection")

(***************************************************************************)
(* Properties of bucket_confidence                                         *)
(***************************************************************************)
Bucketed == fn = "bucket_confidence"

\* C10: bucket_confidence gives "high" from 0.9 up, "medium" from 0.7 up to
\* but excluding 0.9, "low" below 0.7 and "medium" for a missing score; the
\* boundaries 0.9 and 0.7 fall in the higher bucket.
C10_Buckets ==
    Bucketed =>
        /\ IsNone(arg.x) => ret = Str("medium")
        /\ IsNum(arg.x) /\ arg.x.num >= 90 => ret = Str("high")
        /\ IsNum(arg.x) /\ arg.x.num >= 70 /\ arg.x.num < 90 => ret = Str("medium")
        /\ IsNum(arg.x) /\ arg.x.num < 70 => ret = Str("low")

C10_Witness ==
    /\ Bucketed
    /\ arg.x = Num(90)
    /\ ret = Str("high")
(***************************************************************************)
(* Properties of the guarded entry points                                  *)
(***************************************************************************)
InCall(c) == c.pc # "idle"
Guarded(c) == InCall(c) /\ c.entry \in GuardedEntries(kind)
Replied(c) == ~IsNone(c.reply)
Delegated(c) == Len(c.invoked) > 0

\* The backend answered with a JSON object.
BodyReply(c) == Replied(c) /\ c.reply.kind = "body" /\ IsDict(c.reply.json)

\* The backend answered with an unsafe verdict whose fields have the types
\* of the response contract: a string label and a numeric score, if any.
UnsafeReply(c) ==
    /\ BodyReply(c)
    /\ "safe" \in DOMAIN c.reply.json /\ c.reply.json["safe"] = Bool(FALSE)
    /\ "threat_type" \in DOMAIN c.reply.json => IsStr(c.reply.json["threat_type"])
    /\ "confidence" \in DOMAIN c.reply.json => IsNum(c.reply.json["confidence"])
    /\ "severity" \in DOMAIN c.reply.json => IsStr(c.reply.json["severity"])

\* The backend answered with an unsafe verdict whose score is not a number.
IllTypedReply(c) ==
    /\ BodyReply(c)
    /\ "safe" \in DOMAIN c.reply.json /\ c.reply.json["safe"] = Bool(FALSE)
    /\ "confidence" \in DOMAIN c.reply.json /\ IsStr(c.reply.json["confidence"])

\* The scan failed: a timeout, a connection error, a non-2xx status, or a
\* malformed body (not JSON, not a JSON object, an ill-typed verdict).
FailedReply(c) ==
    /\ Replied(c)
    /\ \/ c.reply.kind \in {"timeout", "connect_error", "status", "bad_json"}
       \/ c.reply.kind = "body" /\ ~IsDict(c.reply.json)
       \/ IllTypedReply(c)

\* C1: at every entry point the provider is called only after the scan of
\* that call has finished with a safe verdict: never while the scan is
\* pending, never after an unsafe verdict.
C1_ScanBeforeProvider ==
    \A t \in Tasks :
        LET c == calls[t]
        IN  /\ c.pc = "scanning" => ~Delegated(c)
            /\ Delegated(c) =>
                  /\ Guarded(c)
                  /\ c.pc \in {"provider", "done"}
                  /\ IsDict(c.scan_result)
                  /\ "safe" \in DOMAIN c.scan_result
                  /\ c.scan_result["safe"] = Bool(TRUE)
                  /\ ~UnsafeReply(c)

C1_Witness ==
    \E t \in Tasks :
        /\ calls[t].pc = "provider"
        /\ calls[t].entry = "generate_content_async"
        /\ calls[t].posts = 1
        /\ BodyReply(calls[t])
        /\ Delegated(calls[t])

\* The category and the bucket the response contract documents for the
\* labels and scores the backend answers with.
DocumentedCategory(body) ==
    IF "threat_type" \notin DOMAIN body THEN "unknown"
    ELSE IF body["threat_type"] = Str("sqli") THEN "sql_injection"
    ELSE IF body["threat_type"] = Str("Jailbreak-Attempt") THEN "jailbreak"
    ELSE "unknown"

DocumentedBucket(body) ==
    IF "confidence" \notin DOMAIN body THEN "medium"
    ELSE IF body["confidence"].num >= 90 THEN "high"
    ELSE IF body["confidence"].num >= 70 THEN "medium"
    ELSE "low"

C3_FailOpenDelegates ==
    \A t \in Tasks :
        LET c == calls[t]
        IN  fail_mode = "open" /\ Guarded(c) /\ FailedReply(c) =>
                /\ c.pc \in {"provider", "done"}
                /\ Len(c.invoked) = 1
                /\ c.invoked[1].method = ProviderMethod(kind, use_new_sdk, c.entry, c.args)
                /\ c.invoked[1].args = ProviderArgs(kind, use_new_sdk, c.entry, c.args)
                /\ \A f \in DOMAIN c.args \cap {"messages", "contents"} :
                      c.invoked[1].args[f] = c.args[f]
                /\ c.pc = "done" =>
                      IsReturned(c.result) /\ c.result.returned \in ProviderResponses

C3_Witness ==
    \E t \in Tasks :
        /\ fail_mode = "open" /\ Guarded(calls[t])
        /\ Replied(calls[t]) /\ calls[t].reply.kind = "status"
        /\ calls[t].pc = "done"
        /\ IsReturned(calls[t].result)

\* C4: under policy CLOSED a failed scan of any kind makes the call fail
\* with ScanError, and the provider is never called.
C4_FailClosedRaises ==
    \A t \in Tasks :
        LET c == calls[t]
        IN  fail_mode = "closed" /\ Guarded(c) /\ FailedReply(c) =>
                /\ c.pc = "done"
                /\ IsRaised(c.result)
                /\ c.result.raised = "ShrikeScanError"
                /\ ~Delegated(c)

C4_Witness ==
    \E t \in Tasks :
        /\ fail_mode = "closed" /\ Guarded(calls[t])
        /\ Replied(calls[t]) /\ calls[t].reply.kind = "bad_json"
        /\ IsRaised(calls[t].result)
        /\ calls[t].result.raised = "ShrikeScanError"

(***************************************************************************)
(* Properties of the size guard                                            *)
(***************************************************************************)
\* The text and context a call put into its request to the scan backend.
PostedText(c) ==
    IF "prompt" \in DOMAIN c.request.json THEN c.request.json["prompt"].str
    ELSE c.request.json["content"].str

PostedContext(c) ==
    IF "context" \notin DOMAIN c.request.json THEN ""
    ELSE IF IsStr(c.request.json["context"]) THEN c.request.json["context"].str
    ELSE IF "file_content" \in DOMAIN c.request.json["context"]
         THEN c.request.json["context"]["file_content"].str
    ELSE ""

\* The text and context a scan operation was called with.
ScanArgText(c) ==
    IF c.entry = "scan" THEN c.args.prompt
    ELSE IF c.entry = "scan_sql" THEN c.args.query
    ELSE c.args.path

ScanArgContext(c) ==
    IF c.entry = "scan" THEN c.args.context
    ELSE IF c.entry = "scan_file" THEN c.args.content
    ELSE None

CombinedLength(c) ==
    Len(ScanArgText(c)) + (IF IsStr(ScanArgContext(c)) THEN Len(ScanArgContext(c).str) ELSE 0)

\* C5: on every scan path no request whose text and context together exceed
\* MAX_CONTENT_SIZE reaches the transport, and an input of exactly
\* MAX_CONTENT_SIZE is not blocked by the guard: it is posted.
C5_OversizeNeverPosted ==
    \A t \in Tasks :
        LET c == calls[t]
        IN  /\ InCall(c) /\ c.posts > 0 =>
                  Len(PostedText(c)) + Len(PostedContext(c)) <= 102400
            /\ InCall(c) /\ c.entry \in {"scan", "scan_sql", "scan_file"}
                  /\ CombinedLength(c) = 102400
                  => c.posts = 1

\* C6: the verdict the size guard gives for oversized input, and the caller
\* of scan receives, is the canonical unsafe verdict with threat_type
\* "size_limit_exceeded", severity "low" and confidence "high".
C6_SizeVerdictCanonical ==
    \A t \in Tasks :
        LET c == calls[t]
        IN  InCall(c) /\ kind \in ScanKinds /\ c.pc = "done" /\ c.posts = 0 =>
                /\ IsReturned(c.result)
                /\ DOMAIN c.result.returned =
                      {"safe", "threat_type", "severity", "confidence", "reason", "guidance"}
                /\ c.result.returned["safe"] = Bool(FALSE)
                /\ c.result.returned["threat_type"] = Str("size_limit_exceeded")
                /\ c.result.returned["severity"] = Str("low")
                /\ c.result.returned["confidence"] = Str("high")

(***************************************************************************)
(* Properties of derive_severity                                           *)
(***************************************************************************)
FourLevels == {"critical", "high", "medium", "low"}
CriticalTypes ==
    {"sql_injection", "secrets_exposure", "malicious_code", "privilege_escalation",
     "destructive_operation"}

\* The level a backend severity spells in some letter case, or "" for none.
SpelledLevel(sev) ==
    IF ~IsStr(sev) THEN ""
    ELSE IF \E l \in FourLevels : SpellsKey(sev.str, l)
         THEN CHOOSE l \in FourLevels : SpellsKey(sev.str, l)
         ELSE ""

SeverityDerived == fn = "derive_severity"

\* C11: derive_severity returns the backend severity in lower case when it
\* is one of critical/high/medium/low in any letter case, even when that is
\* lower than the default of the threat type; otherwise the default of the
\* threat type: critical for the five critical types, low for
\* size_limit_exceeded, medium for a type absent from the table.  The
\* result is always one of the four levels.
C11_Severity ==
    SeverityDerived =>
        /\ IsStr(ret) /\ ret.str \in FourLevels
        /\ SpelledLevel(arg.x.raw_severity) # "" =>
              ret = Str(SpelledLevel(arg.x.raw_severity))
        /\ SpelledLevel(arg.x.raw_severity) = "" =>
              /\ arg.x.threat_type \in CriticalTypes => ret = Str("critical")
              /\ arg.x.threat_type = "size_limit_exceeded" => ret = Str("low")
              /\ arg.x.threat_type \in {"banana", "", "SQL_INJECTION"} => ret = Str("medium")

C11_Witness ==
    /\ SeverityDerived
    /\ arg.x.threat_type = "sql_injection"
    /\ arg.x.raw_severity = Str("LOW")
    /\ ret = Str("low")

(***************************************************************************)
(* Properties of the message extractors                                    *)
(***************************************************************************)
HasUserRole(msg) == "role" \in DOMAIN msg /\ msg["role"] = Str("user")
IsTextBlock(block) == IsDict(block) /\ "type" \in DOMAIN block /\ block["type"] = Str("text")

\* The texts a message content holds: the string itself, or the texts of
\* the blocks tagged "text" of a list, in order.
ContentTexts(msg) ==
    IF "content" \notin DOMAIN msg THEN <<>>
    ELSE IF IsStr(msg["content"]) THEN <<msg["content"].str>>
    ELSE IF IsList(msg["content"])
         THEN LET tagged == SelectSeq(msg["content"].list, IsTextBlock)
              IN  [i \in 1..Len(tagged) |->
                      IF "text" \in DOMAIN tagged[i] THEN tagged[i]["text"].str ELSE ""]
    ELSE <<>>

\* The texts of the user-role messages among the first n, in message order.
RECURSIVE TextsOfUsers(_, _)
TextsOfUsers(messages, n) ==
    IF n = 0 THEN <<>>
    ELSE TextsOfUsers(messages, n - 1)
         \o (IF HasUserRole(messages[n]) THEN ContentTexts(messages[n]) ELSE <<>>)

\* The first n texts, each but the first preceded by a newline.
RECURSIVE NewlineJoined(_, _)
NewlineJoined(texts, n) ==
    IF n = 0 THEN ""
    ELSE IF n = 1 THEN texts[1]
    ELSE NewlineJoined(texts, n - 1) \o "\n" \o texts[n]

\* Every element of every content list is a block (a dict), as in the
\* message format of the providers.
OnlyBlocks(messages) ==
    \A i \in 1..Len(messages) :
        "content" \in DOMAIN messages[i] /\ IsList(messages[i]["content"]) =>
            \A j \in 1..Len(messages[i]["content"].list) :
                IsDict(messages[i]["content"].list[j])

Extracted == fn = "_extract_user_content"

ExtractedText(c) ==
    IF kind \in AnthropicKinds THEN anthropic_extract_user_content(c.args.messages.list)
    ELSE IF kind = "ShrikeAsyncOpenAI" THEN openai_extract_user_content(c.args.messages.list)
    ELSE _extract_content(c.args.contents)

\* s is empty or holds nothing but spaces, tabs and line ends.
OnlySpaces(s) == \A i \in 1..Len(s) : SubSeq(s, i, i) \in {" ", "\t", "\n", "\r"}

\* C13: when the text extracted for an adapter call is empty or only
\* whitespace, the scan resolves to a safe verdict without any call to the
\* transport, under either failure policy, and the call is delegated to
\* the provider.
C13_BlankIsSafe ==
    \A t \in Tasks :
        LET c == calls[t]
        IN  Guarded(c) /\ OnlySpaces(ExtractedText(c)) =>
                /\ c.posts = 0
                /\ c.pc \in {"provider", "done"}
                /\ IsDict(c.scan_result) /\ c.scan_result["safe"] = Bool(TRUE)
                /\ Len(c.invoked) = 1
                /\ c.pc = "done" => IsReturned(c.result)

C13_Witness ==
    \E t \in Tasks :
        /\ kind = "ShrikeAsyncAnthropic" /\ fail_mode = "closed"
        /\ Guarded(calls[t])
        /\ calls[t].args.messages = List(<<Message("user", Str(" \n"))>>)
        /\ calls[t].pc = "done"
        /\ calls[t].posts = 0
        /\ IsReturned(calls[t].result)

\* C14: an adapter call whose extracted text is not blank and within the
\* size ceiling issues exactly one request to the scan backend, carrying
\* that text, whatever the outcome: a failed request is not retried, and a
\* call whose request equals that of the call before it issues its own.
C14_OneRequestPerCall ==
    \A t \in Tasks :
        LET c == calls[t]
        IN  Guarded(c) /\ ~OnlySpaces(ExtractedText(c))
                       /\ Len(ExtractedText(c)) <= 102400 =>
                /\ c.posts = 1
                /\ c.request.url = "/scan"
                /\ c.request.json = ("prompt" :> Str(ExtractedText(c)))

C14_Witness ==
    \E t \in Tasks :
        /\ Guarded(calls[t])
        /\ ~OnlySpaces(ExtractedText(calls[t]))
        /\ ~IsNone(calls[t].earlier)
        /\ calls[t].earlier.request = calls[t].request
        /\ FailedReply(calls[t])
        /\ calls[t].pc = "done"
        /\ calls[t].posts = 1

\* C15: when the unsafe response of the backend carries structured
\* violation records, the BlockedError the adapter raises carries those
\* records in its violations attribute.
C15_ViolationsCarried ==
    \A t \in Tasks :
        LET c == calls[t]
        IN  Guarded(c) /\ UnsafeReply(c) /\ "violations" \in DOMAIN c.reply.json
                       /\ IsRaised(c.result) /\ c.result.raised = "ShrikeBlockedError" =>
                c.result.fields.violations = c.reply.json["violations"]

(***************************************************************************)
(* Properties of the failure surface                                       *)
(***************************************************************************)
\* C16: every scan operation either returns a verdict or fails with
\* ScanError; no other error, such as a transport timeout or an HTTP-status
\* error, reaches the caller of scan.  (An adapter entry point may in
\* addition fail with BlockedError.)
C16_OnlyScanError ==
    \A t \in Tasks :
        LET c == calls[t]
        IN  c.pc = "done" =>
                IF c.entry \in {"scan", "scan_sql", "scan_file"}
                THEN \/ IsReturned(c.result) /\ IsDict(c.result.returned)
                     \/ IsRaised(c.result) /\ c.result.raised = "ShrikeScanError"
                ELSE IsRaised(c.result) =>
                        c.result.raised \in {"ShrikeScanError", "ShrikeBlockedError"}

\* The error of the transport or of the decoding of its reply.
TransportError(reply) ==
    IF reply.kind = "timeout" THEN "TimeoutException"
    ELSE IF reply.kind = "connect_error" THEN "ConnectError"
    ELSE IF reply.kind = "status" THEN "HTTPStatusError"
    ELSE IF reply.kind = "bad_json" THEN "JSONDecodeError"
    ELSE IF ~IsDict(reply.json) THEN "AttributeError"
    ELSE "TypeError"

\* C16 as amended: a scan run by an adapter, ShrikeAsyncOpenAI.scan_sql and
\* scan_file included, either returns a verdict or fails with ScanError
\* (an entry point may in addition fail with BlockedError); ScanClient and
\* AsyncScanClient scan, scan_sql and scan_file either return a verdict or
\* let the error of the transport reach the caller as it is.
C16_ScanErrorInAdapters ==
    \A t \in Tasks :
        LET c == calls[t]
        IN  c.pc = "done" =>
                IF kind \in ScanKinds
                THEN \/ IsReturned(c.result) /\ IsDict(c.result.returned)
                     \/ /\ IsRaised(c.result) /\ FailedReply(c)
                        /\ c.result.raised = TransportError(c.reply)
                ELSE IF c.entry \in {"scan_sql", "scan_file"}
                THEN \/ IsReturned(c.result) /\ IsDict(c.result.returned)
                     \/ /\ IsRaised(c.result) /\ FailedReply(c) /\ fail_mode = "closed"
                        /\ c.result.raised = "ShrikeScanError"
                ELSE IsRaised(c.result) =>
                        \/ c.result.raised = "ShrikeBlockedError"
                        \/ /\ FailedReply(c) /\ fail_mode = "closed"
                           /\ c.result.raised = "ShrikeScanError"

C16_Witness ==
    \E t \in Tasks :
        /\ kind = "AsyncScanClient"
        /\ calls[t].pc = "done" /\ calls[t].entry = "scan"
        /\ calls[t].reply = [kind |-> "status", code |-> 500]
        /\ calls[t].result.raised = "HTTPStatusError"

(***************************************************************************)
(* Properties of construction                                              *)
(***************************************************************************)
RecognisedPolicies == {Str("open"), Str("closed"), Member("open"), Member("closed")}

\* C17: constructing an adapter with a failure policy that is not a
\* recognised policy fails during construction with ConfigError, and no
\* adapter with an unrecognised policy exists.
C17_ConfigErrorAtConstruction ==
    /\ fn = "__init__" /\ arg.fail_mode \notin RecognisedPolicies =>
          ret = Exc("ShrikeConfigError") /\ kind = "none"
    /\ kind \in AdapterKinds => fail_mode \in {"open", "closed"}

(***************************************************************************)
(* Properties of the diagnostics                                           *)
(***************************************************************************)
\* C18: under policy OPEN every scan failure that is turned into a safe
\* verdict, whatever its kind, also emits a warning before the call goes
\* on to the provider.
C18_FailOpenWarns ==
    \A t \in Tasks :
        LET c == calls[t]
        IN  fail_mode = "open" /\ Guarded(c) /\ FailedReply(c) /\ Delegated(c) =>
                c.warnings >= 1

(***************************************************************************)
(* Properties of the asynchronous entry points                             *)
(***************************************************************************)
ScanInFlight(t) == calls[t].pc = "scanning"

\* C19: in every asynchronous adapter entry point the scan round trip
\* suspends only the calling task: while the scan of one task is in flight
\* the other tasks of the event loop can take steps.
C19_OthersCanStep ==
    \A t \in AsyncTasks : \A u \in AsyncTasks \ {t} :
        ScanInFlight(t) => ENABLED TaskStep(u)

\* C19 as amended: in the asynchronous entry points of ShrikeAsyncOpenAI and
\* ShrikeAsyncAnthropic the other tasks can take steps while the scan of a
\* task is in flight; in generate_content_async and send_message_async of
\* the Gemini adapter the scan is synchronous and no other task takes a
\* step until it has returned.
C19_OthersCanStepUnlessGemini ==
    \A t \in AsyncTasks : \A u \in AsyncTasks \ {t} :
        ScanInFlight(t) =>
            IF kind = "ShrikeGemini" THEN ~ENABLED TaskStep(u) ELSE ENABLED TaskStep(u)

C19_Witness ==
    /\ kind = "ShrikeAsyncAnthropic"
    /\ ScanInFlight("t1") /\ calls["t1"].entry = "stream"
    /\ ScanInFlight("t2") /\ calls["t2"].entry = "create"

ScanCancelled(c) == ~IsNone(c.reply) /\ c.reply.kind = "cancelled"

\* C20: when an asynchronous adapter call is cancelled while its scan
\* request is in flight, the cancellation propagates under OPEN and under
\* CLOSED: it is not turned into a safe verdict, the provider is never
\* called for that call, and the adapter serves later calls as usual.
C20_CancelPropagates ==
    \A t \in AsyncTasks :
        LET c == calls[t]
        IN  /\ ScanCancelled(c) =>
                  /\ c.pc = "done"
                  /\ IsRaised(c.result) /\ c.result.raised = "CancelledError"
                  /\ IsNone(c.scan_result)
                  /\ c.invoked = <<>>
            /\ /\ ~IsNone(c.earlier) /\ c.earlier.cancelled
               /\ c.pc = "done" /\ c.entry \in GuardedEntries(kind)
               /\ ~IsNone(c.reply) /\ c.reply = [kind |-> "body", json |-> ("safe" :> Bool(TRUE))]
               => /\ c.posts = 1 /\ Len(c.invoked) = 1
                  /\ \/ IsReturned(c.result) /\ c.result.returned \in ProviderResponses
                     \/ IsRaised(c.result) /\ c.result.raised = "CancelledError"

C20_Witness ==
    \E t \in AsyncTasks :
        /\ fail_mode = "open"
        /\ ~IsNone(calls[t].earlier) /\ calls[t].earlier.cancelled
        /\ calls[t].pc = "done"
        /\ calls[t].posts = 1
        /\ IsReturned(calls[t].result)

(***************************************************************************)
(* Properties of the lifetime of a client                                  *)
(***************************************************************************)
\* The classes whose entry points are coroutines only.
IsAsyncClass(k) == k \in {"ShrikeAsyncAnthropic", "ShrikeAsyncOpenAI", "AsyncScanClient"}

InScope == http.scope \in {"with", "async with"}

\* C21: a client has exactly one scan transport, made at construction and
\* never replaced by a call; once the with-block of the client has been
\* left, by its end or by an exception, the transport is closed; and every
\* class can be the resource of the block of its mode, "async with" for the
\* asynchronous classes and "with" for the others, and of no other.
C21_ScopedTransport ==
    /\ http.created = 1
    /\ http.scope = "left" => http.closed
    /\ InScope => (http.scope = "async with" <=> IsAsyncClass(kind))
    /\ (http.scope = "none" /\ AllIdle) =>
          ENABLED EnterScope(IF IsAsyncClass(kind) THEN "async with" ELSE "with")

\* An asynchronous adapter that served a call in its block, left by an
\* exception.
C21_Witness ==
    /\ kind = "ShrikeAsyncOpenAI"
    /\ http.scope = "left" /\ http.body_raised /\ http.closed
    /\ \E t \in Tasks : /\ ~IsNone(calls[t].earlier)
                             /\ ~IsNone(calls[t].earlier.request)

(***************************************************************************)
(* Properties of the extractor of freeform contents                        *)
(***************************************************************************)
\* An entry of a multi-turn payload: a dict with a role and parts.
IsRoleEntry(item) == IsDict(item) /\ "role" \in DOMAIN item /\ "parts" \in DOMAIN item

IsMultiTurn(contents) ==
    /\ IsList(contents) /\ Len(contents.list) > 0
    /\ \A i \in 1..Len(contents.list) : IsRoleEntry(contents.list[i])

IsTextPart(part) == IsStr(part) \/ (IsDict(part) /\ "text" \in DOMAIN part)

\* The texts of the parts of an entry, in order.
EntryTexts(item) ==
    LET textual == SelectSeq(item["parts"].list, IsTextPart)
    IN  [i \in 1..Len(textual) |->
            IF IsStr(textual[i]) THEN textual[i].str ELSE textual[i]["text"].str]

\* The texts of the user-role entries among the first n, in order.
RECURSIVE TextsOfUserEntries(_, _)
TextsOfUserEntries(items, n) ==
    IF n = 0 THEN <<>>
    ELSE TextsOfUserEntries(items, n - 1)
         \o (IF HasUserRole(items[n]) THEN EntryTexts(items[n]) ELSE <<>>)

\* C22: when a Gemini entry point is called with a multi-turn payload (a
\* list of entries that carry a role and parts), the text posted to the scan
\* backend is the text of the user-role entries only: the text of an entry
\* of another role is not part of it.
C22_OnlyUserEntriesScanned ==
    \A t \in Tasks :
        LET c == calls[t]
        IN  /\ kind = "ShrikeGemini" /\ Guarded(c)
            /\ IsMultiTurn(c.args.contents) /\ ~IsNone(c.request)
            => LET texts == TextsOfUserEntries(c.args.contents.list, Len(c.args.contents.list))
               IN  PostedText(c) = NewlineJoined(texts, Len(texts))

\* Content that is not text: a dict with neither a "text" nor a "parts"
\* key, or a value that is not a string, a list or a dict.
IsNonText(v) ==
    IF IsDict(v) THEN "text" \notin DOMAIN v /\ "parts" \notin DOMAIN v
    ELSE ~IsStr(v) /\ ~IsList(v)

\* A payload made only of content that is not text.
OnlyNonText(contents) ==
    \/ IsNonText(contents)
    \/ /\ IsList(contents)
       /\ \A i \in 1..Len(contents.list) : IsNonText(contents.list[i])

\* C23: when a Gemini entry point is called with a payload made only of
\* content that is not text, the extracted text is the empty string and no
\* scan request is posted.
C23_NonTextNotScanned ==
    \A t \in Tasks :
        LET c == calls[t]
        IN  kind = "ShrikeGemini" /\ Guarded(c) /\ OnlyNonText(c.args.contents) =>
                /\ ExtractedText(c) = ""
                /\ c.posts = 0

(***************************************************************************)
(* Properties of sequences of calls                                        *)
(***************************************************************************)
\* How a call ended, or is about to end once the provider has answered.
OutcomeOf(c) ==
    IF Delegated(c) THEN "delegated"
    ELSE IF IsRaised(c.result) THEN c.result.raised
    ELSE "pending"

Decided(c) == c.pc \in {"provider", "done"}

\* The same call, with the same reply to its scan request if it posted one,
\* made on a client that has served no call before.
AsFirstCall(c) ==
    LET begun == GuardedCall(kind, use_new_sdk,
                             [Idle EXCEPT !.entry = c.entry, !.args = c.args])
    IN  IF begun.pc # "scanning" \/ IsNone(c.reply) THEN begun
        ELSE Decide(kind, use_new_sdk, [begun EXCEPT !.reply = c.reply],
                    _remote_scan(fail_mode, c.reply))

ChatEntries == {"send_message", "send_message_async"}

\* C24: the outcome of a guarded call (delegated, ShrikeBlockedError,
\* ShrikeScanError) and its scan result are those of the same call with the
\* same reply on a client that served no call before: nothing of an earlier
\* call bears on them.  In a Gemini chat session a blocked message is not
\* forwarded to the wrapped chat, and a message with a safe scan result
\* that follows a blocked one is forwarded.
C24_NoCrossCallState ==
    \A t \in Tasks :
        LET c == calls[t]
        IN  /\ Guarded(c) /\ Decided(c) =>
                /\ OutcomeOf(c) = OutcomeOf(AsFirstCall(c))
                /\ c.scan_result = AsFirstCall(c).scan_result
            /\ Guarded(c) /\ c.entry \in ChatEntries /\ WasBlocked(c) => c.invoked = <<>>
            /\ ( /\ Guarded(c) /\ c.entry \in ChatEntries /\ Decided(c)
                 /\ ~IsNone(c.earlier) /\ c.earlier.blocked
                 /\ IsDict(c.scan_result) /\ c.scan_result["safe"] = Bool(TRUE) )
               => Len(c.invoked) = 1

\* A chat session: a message was blocked, the next one, scanned safe by the
\* backend, has been answered by the wrapped chat.
C24_Witness ==
    \E t \in Tasks :
        LET c == calls[t]
        IN  /\ kind = "ShrikeGemini" /\ c.entry = "send_message"
            /\ ~IsNone(c.earlier) /\ c.earlier.blocked
            /\ c.posts = 1 /\ c.pc = "done" /\ IsReturned(c.result)

(***************************************************************************)
(* Properties of the delegation                                            *)
(***************************************************************************)
\* The scan of the call ended with a safe verdict.
SafeVerdictReached(c) ==
    /\ Guarded(c) /\ Decided(c)
    /\ IsDict(c.scan_result) /\ "safe" \in DOMAIN c.scan_result
    /\ c.scan_result["safe"] = Bool(TRUE)

\* The generate_content entry points of a client on the new Gemini SDK.
NewSdkGenerate(c) ==
    /\ kind = "ShrikeGemini" /\ use_new_sdk
    /\ c.entry \in {"generate_content", "generate_content_stream", "generate_content_async"}

ReturnedAsIs(c) ==
    c.pc = "done" => IsReturned(c.result) /\ c.result.returned \in ProviderResponses

\* C25 as stated: on a safe verdict the provider is invoked exactly once
\* with exactly the arguments of the caller (payload, stream flag, extra
\* keyword arguments; nothing added, dropped or modified), and the result of
\* the provider is returned as it is.
C25_DelegatedUnchanged ==
    \A t \in Tasks :
        LET c == calls[t]
        IN  SafeVerdictReached(c) =>
                /\ Len(c.invoked) = 1
                /\ DOMAIN c.invoked[1].args = DOMAIN c.args
                /\ \A f \in DOMAIN c.args : c.invoked[1].args[f] = c.args[f]
                /\ ReturnedAsIs(c)

\* C25: on a safe verdict the provider is invoked exactly once, with the
\* payload (messages or contents) and the extra keyword arguments of the
\* caller unchanged, and its result is returned as it is.  The stream flag
\* is passed on unchanged, except that with the new Gemini SDK it is not
\* passed but selects the streaming or the plain method; the entry point
\* generate_content_stream always asks for a stream; and nothing is added
\* but that stream=True and, with the new Gemini SDK, the model name.
C25_DelegatedPayloadAndKwargs ==
    \A t \in Tasks :
        LET c == calls[t]
        IN  SafeVerdictReached(c) =>
                /\ Len(c.invoked) = 1
                /\ LET given == c.args
                       passed == c.invoked[1].args
                       method == c.invoked[1].method
                   IN  /\ \A f \in DOMAIN given \ {"stream"} :
                              f \in DOMAIN passed /\ passed[f] = given[f]
                       /\ DOMAIN passed \ DOMAIN given \subseteq
                              (IF NewSdkGenerate(c) THEN {"model"}
                               ELSE IF c.entry = "generate_content_stream" THEN {"stream"}
                               ELSE {})
                       /\ "stream" \in DOMAIN given =>
                              IF NewSdkGenerate(c)
                              THEN /\ "stream" \notin DOMAIN passed
                                   /\ method = "models.generate_content_stream" <=> given.stream
                              ELSE "stream" \in DOMAIN passed /\ passed.stream = given.stream
                       /\ c.entry = "generate_content_stream" =>
                              IF NewSdkGenerate(c)
                              THEN method = "models.generate_content_stream"
                              ELSE "stream" \in DOMAIN passed /\ passed.stream = TRUE
                /\ ReturnedAsIs(c)

\* A streaming generate_content with a keyword argument on the new Gemini
\* SDK, scanned safe by the backend and answered by the provider.
C25_Witness ==
    \E t \in Tasks :
        LET c == calls[t]
        IN  /\ kind = "ShrikeGemini" /\ use_new_sdk
            /\ c.entry = "generate_content" /\ c.args.stream
            /\ c.args.kwargs = ("temperature" :> Num(50))
            /\ BodyReply(c) /\ SafeVerdictReached(c)
            /\ c.pc = "done" /\ IsReturned(c.result)

(***************************************************************************)
(* Properties of the scan operation called directly                        *)
(***************************************************************************)
\* C26: scan called with the empty text (and a context the size guard lets
\* pass) posts nothing and returns a safe verdict whose reason is "no
\* content to scan": the empty-input check comes after the size guard and
\* before the request.
C26_EmptyScanIsSafe ==
    \A t \in Tasks :
        LET c == calls[t]
        IN  /\ kind \in ScanKinds /\ InCall(c) /\ c.entry = "scan"
            /\ c.args.prompt = "" /\ CombinedLength(c) <= MAX_CONTENT_SIZE
            => /\ c.posts = 0
               /\ c.pc = "done"
               /\ IsReturned(c.result)
               /\ c.result.returned["safe"] = Bool(TRUE)
               /\ lower(c.result.returned["reason"].str) = "no content to scan"

(***************************************************************************)
(* Properties of a response without a "safe" field                         *)
(***************************************************************************)
\* The backend answered 2xx with a JSON object that has no "safe" key.
NoSafeKeyReply(c) == BodyReply(c) /\ "safe" \notin DOMAIN c.reply.json

\* C27: when the backend answers 2xx with a JSON object without a "safe"
\* key, the scan result is a safe verdict and, under either policy, the
\* call is delegated to the provider and raises neither ShrikeBlockedError
\* nor ShrikeScanError, whatever threat_type the body carries.
C27_NoSafeKeyIsSafe ==
    \A t \in Tasks :
        LET c == calls[t]
        IN  Guarded(c) /\ NoSafeKeyReply(c) =>
                /\ IsDict(c.scan_result) /\ c.scan_result["safe"] = Bool(TRUE)
                /\ c.pc \in {"provider", "done"}
                /\ Len(c.invoked) = 1
                /\ ~IsRaised(c.result)

\* Such a body naming a threat, under policy CLOSED; the provider answered.
C27_Witness ==
    \E t \in Tasks :
        LET c == calls[t]
        IN  /\ fail_mode = "closed" /\ Guarded(c) /\ NoSafeKeyReply(c)
            /\ "threat_type" \in DOMAIN c.reply.json
            /\ c.pc = "done" /\ IsReturned(c.result)

(***************************************************************************)
(* Properties of what the sanitized verdict reveals                        *)
(***************************************************************************)
FieldOf(raw, k) == IF k \in DOMAIN raw THEN raw[k] ELSE Absent

\* Two raw responses agree on safe, on the normalized threat type, on
\* severity and on reason, and their scores fall in the same bucket.
Agree(a, b) ==
    /\ FieldOf(a, "safe") = FieldOf(b, "safe")
    /\ normalize_threat_type(Get(a, "threat_type", Str("unknown")))
         = normalize_threat_type(Get(b, "threat_type", Str("unknown")))
    /\ FieldOf(a, "severity") = FieldOf(b, "severity")
    /\ FieldOf(a, "reason") = FieldOf(b, "reason")
    /\ IsNum(Get(a, "confidence", Num(0))) /\ IsNum(Get(b, "confidence", Num(0)))
    /\ bucket_confidence(Get(a, "confidence", None))
         = bucket_confidence(Get(b, "confidence", None))

\* C28: two raw responses that agree on safe, on the normalized threat
\* type, on severity and on reason, and whose scores fall in the same
\* bucket, are sanitized to the same verdict, whatever their exact scores
\* and their other fields.
C28_HiddenDetailNotRevealed ==
    fn = "sanitize_pair" /\ Agree(arg.x, arg.y) => ret = ret2

\* An unsafe response with every denylisted field and the score 0.95, and
\* one without them with the score 0.90 and another spelling of the label.
C28_Witness ==
    /\ fn = "sanitize_pair" /\ Agree(arg.x, arg.y)
    /\ ~RawIsSafe(arg.x)
    /\ Denylist \subseteq DOMAIN arg.x /\ DOMAIN arg.y \cap Denylist = {}
    /\ FieldOf(arg.x, "confidence") = Num(95) /\ FieldOf(arg.y, "confidence") = Num(90)
    /\ FieldOf(arg.x, "threat_type") = Str("sqli")
    /\ FieldOf(arg.y, "threat_type") = Str("SQL-Injection")
    /\ IsDict(ret) /\ ret["confidence"] = Str("high") /\ ret2 = ret

(***************************************************************************)
(* Properties of concurrent calls                                          *)
(***************************************************************************)
SafeReply(c) ==
    /\ BodyReply(c)
    /\ "safe" \in DOMAIN c.reply.json /\ c.reply.json["safe"] = Bool(TRUE)

\* C29: with two calls in progress on one client, threads on a synchronous
\* adapter or tasks on an asynchronous one, in every interleaving a call is
\* decided after the answer to its own scan request and by that answer
\* only: a call whose scan answered unsafe never calls the provider, a call
\* whose scan answered safe calls it once, and the outcome of a call is that
\* of the same call with the same answer made alone, whatever the other call
\* got.
C29_ConcurrentCallsIndependent ==
    \A t \in AsyncTasks :
        LET c == calls[t]
        IN  Guarded(c) =>
                /\ UnsafeReply(c) => c.invoked = <<>> /\ WasBlocked(c)
                /\ SafeReply(c) => Len(c.invoked) = 1
                /\ Decided(c) /\ c.posts > 0 =>
                      /\ Replied(c)
                      /\ ~WasCancelled(c) => OutcomeOf(c) = OutcomeOf(AsFirstCall(c))

\* Two threads on a synchronous adapter, both past their scan: one call is
\* blocked, the other waits for the provider.
C29_Witness ==
    /\ kind = "ShrikeAnthropic"
    /\ \E t, u \in AsyncTasks :
          /\ t # u
          /\ Guarded(calls[t]) /\ UnsafeReply(calls[t]) /\ WasBlocked(calls[t])
          /\ Guarded(calls[u]) /\ SafeReply(calls[u]) /\ calls[u].pc = "provider"
          /\ calls[t].args = calls[u].args

(***************************************************************************)
(* Properties of calls on a closed client                                  *)
(***************************************************************************)
\* The post of the scan request found the transport closed.
TransportClosed(c) == Replied(c) /\ c.reply.kind = "closed"

=============================================================================
